---- MODULE Spec2Model ----
(***************************************************************************)
(* Model of the auction tournament engine: TournamentEngine (core/engine), *)
(* TournamentStore (core/store/tournamentStore) and the two implemented    *)
(* clearing strategies (vickrey, uniform_price).                           *)
(*                                                                         *)
(* Quantities.  Token quantities and money are integers counting units of  *)
(* 10^-DECIMAL_PLACES (the precision the uniform-price clearing rounds     *)
(* to), so one token is Unit and a price of 3 per token on a supply of one *)
(* token costs 3 * Unit.  Prices per token are whole numbers.  Arithmetic  *)
(* is exact: the rounding error of IEEE doubles is not modelled.           *)
(***************************************************************************)
EXTENDS Integers, Sequences, FiniteSets, TLC

VARIABLES
  config,          \* TournamentEngine.config
  state,           \* TournamentStore.state
  pc,              \* position of run(): not_started, begin, collect,
                   \*   clear, rescind, done, crashed
  stageIdx,        \* run(): loop variable stageIdx
  periodIdx,       \* run(): loop variable periodIdx
  absolutePeriod,  \* run(): absolutePeriod
  context,         \* run(): periodContext of the period being run
  rescindAllowed,  \* run(): rescindAllowed of the period being run
  botIdx,          \* runPeriod(): position in botIds of the next bot
  allBids,         \* runPeriod(): allBids
  clearingResult,  \* runPeriod(): clearingResult (while the winner is asked)
  lastCall,        \* the latest call made to an agent, with its arguments
  twin,            \* store of the run that differs only in the decision
                   \*   taken at the latest rescind prompt; before is the
                   \*   store as it was when the latest clearing began
  result           \* value returned by run()

vars == <<config, state, pc, stageIdx, periodIdx, absolutePeriod, context,
          rescindAllowed, botIdx, allBids, clearingResult, lastCall, twin,
          result>>

Null == "null"

----------------------------------------------------------------------------
(* Program constants *)

RESCIND_REVEAL_DELAY == 2

DECIMAL_PLACES == 8

Unit == 10^DECIMAL_PLACES

----------------------------------------------------------------------------
(* Bounds of the model *)

\* Budget of every bot, in whole currency units.
BudgetPerBot == 6

\* The two prices per token that agents offer.
LowBid == 2

HighBid == 3

\* Base supply of the smallest stage, in units of 10^-DECIMAL_PLACES tokens.
SmallSupply == 4

----------------------------------------------------------------------------
(* Generic helpers *)

RECURSIVE SumSeq(_)
SumSeq(s) == IF s = <<>> THEN 0 ELSE Head(s) + SumSeq(Tail(s))

Min(a, b) == IF a <= b THEN a ELSE b

\* Array.prototype.sort with a consistent comparator: stable.
\* Before(x, y) holds when the comparator orders x strictly before y.
StableSort(s, Before(_, _)) ==
  LET rank(i) == 1 + Cardinality({j \in DOMAIN s \ {i} :
                        \/ Before(s[j], s[i])
                        \/ (~Before(s[i], s[j]) /\ j < i)})
  IN  [k \in 1..Len(s) |-> s[CHOOSE i \in DOMAIN s : rank(i) = k]]

\* Array.prototype.slice(0, n)
Slice(s, n) == SubSeq(s, 1, Min(Len(s), n))

\* Array.prototype.map
Map(s, F(_)) == [i \in DOMAIN s |-> F(s[i])]

\* Array.prototype.findIndex (0 when absent, indices from 1)
FindIndex(s, P(_)) ==
  IF \E i \in DOMAIN s : P(s[i])
  THEN CHOOSE i \in DOMAIN s : P(s[i]) /\ \A j \in 1..(i-1) : ~P(s[j])
  ELSE 0

RemoveAt(s, i) == SubSeq(s, 1, i-1) \o SubSeq(s, i+1, Len(s))

----------------------------------------------------------------------------
(* Agents, in registration order.  The order of the ids under             *)
(* String.localeCompare is the other way round.  An engine may also be    *)
(* constructed with no agent at all.                                      *)

AgentLists == {<<"bot_B", "bot_A">>, <<>>}

\* the keys of the engine's bots map, in insertion order
botOrder ==
  CHOOSE agents \in AgentLists :
    {agents[i] : i \in DOMAIN agents} = DOMAIN state.bots

BotIds == {botOrder[i] : i \in DOMAIN botOrder}

\* a.localeCompare(b) < 0
LocaleBefore(a, b) ==
  LET rk == ("bot_A" :> 1) @@ ("bot_B" :> 2) IN rk[a] < rk[b]

----------------------------------------------------------------------------
(* Tournament configurations *)

StageConfig(supply, ppt, floor, n, cap, strategy) ==
  [base_token_supply |-> supply, points_per_token |-> ppt,
   floor_price |-> floor, num_periods |-> n,
   max_bids_per_period |-> cap, clearing_strategy |-> strategy]

TournamentConfig(stages, spAwards, overallBonus) ==
  [budget_per_bot |-> BudgetPerBot * Unit, stages |-> stages,
   sp_awards |-> spAwards, overall_bonus_sp |-> overallBonus]

\* The first three offer one token per period as the base share.  The
\* fourth has a floor below both offered prices, a second stage that sells
\* SmallSupply hundred-millionths of a token at a uniform price, one SP
\* award per stage and an overall bonus of zero.  The fifth has a floor
\* price of zero.
Configs ==
  { TournamentConfig(<<StageConfig(2 * Unit, 1, 2, 2, 2, "vickrey"),
                       StageConfig(1 * Unit, 2, 3, 1, 1, "vickrey")>>,
                     <<3, 2, 1>>, 1),
    TournamentConfig(<<StageConfig(1 * Unit, 1, 2, 1, 2, "uniform_price"),
                       StageConfig(2 * Unit, 2, 2, 2, 2, "vickrey")>>,
                     <<3, 2, 1>>, 1),
    TournamentConfig(<<StageConfig(3 * Unit, 1, 2, 3, 2, "vickrey")>>,
                     <<3, 2, 1>>, 1),
    TournamentConfig(<<StageConfig(1 * Unit, 2, 1, 1, 3, "vickrey"),
                       StageConfig(SmallSupply, 3, 1, 1, 3, "uniform_price")>>,
                     <<3>>, 0),
    TournamentConfig(<<StageConfig(1 * Unit, 1, 0, 1, 1, "vickrey")>>,
                     <<3, 2, 1>>, 1) }

\* A configuration with a negative floor price: the constructors take it
\* as it is.
MalformedConfigs ==
  { TournamentConfig(<<StageConfig(1 * Unit, 1, -1, 1, 1, "vickrey"),
                       StageConfig(1 * Unit, 1, -1, 1, 2, "vickrey")>>,
                     <<3, 2, 1>>, 1) }

NumStages == Len(config.stages)

\* buildObservation(): totalPeriods
TotalPeriods(cfg) == SumSeq([i \in DOMAIN cfg.stages |-> cfg.stages[i].num_periods])

----------------------------------------------------------------------------
(* TournamentStore *)

NewBotState(cfg, id) ==
  [bot_id |-> id, remaining_budget |-> cfg.budget_per_bot, holdings |-> <<>>,
   weighted_points |-> 0,
   tokens_per_stage |-> [i \in DOMAIN cfg.stages |-> 0],
   sp |-> 0, private_info |-> <<>>]

NewStore(cfg, botIds) ==
  [phase |-> "not_started", current_stage |-> -1, current_period |-> -1,
   bots |-> [id \in {botIds[i] : i \in DOMAIN botIds} |-> NewBotState(cfg, id)],
   period_results |-> <<>>, pending_rescinds |-> <<>>,
   rescind_supply_queue |-> <<>>]

getAllBots(st) == [i \in DOMAIN botOrder |-> st.bots[botOrder[i]]]

setPhase(st, phase) == [st EXCEPT !.phase = phase]

setCurrentStage(st, stage) == [st EXCEPT !.current_stage = stage]

setCurrentPeriod(st, period) == [st EXCEPT !.current_period = period]

\* deductBudget throws unless CanDeduct
CanDeduct(st, botId, amount) == ~(st.bots[botId].remaining_budget < amount)

\* mutant: the budget is left as it is
deductBudget_nothing(st, botId, amount) ==
  st

deductBudget(st, botId, amount) ==
  [st EXCEPT !.bots[botId].remaining_budget = @ - amount]

\* mutant: the refund overwrites the balance
refundBudget_assign(st, botId, amount) ==
  [st EXCEPT !.bots[botId].remaining_budget = amount]

refundBudget(st, botId, amount) ==
  [st EXCEPT !.bots[botId].remaining_budget = @ + amount]

addHolding(st, botId, holding) ==
  [st EXCEPT !.bots[botId].holdings = Append(@, holding),
             !.bots[botId].tokens_per_stage[holding.stage + 1] = @ + holding.quantity,
             !.bots[botId].weighted_points =
                 @ + holding.quantity * holding.points_per_token]

\* mutant: the points are reduced by the quantity, not quantity x points
removeHolding_noPoints(st, botId, stage, period) ==
  LET bot == st.bots[botId]
      Match(h) == h.stage = stage /\ h.period = period
      idx == FindIndex(bot.holdings, Match)
      removed == bot.holdings[idx]
  IN  IF idx = 0 THEN st
      ELSE [st EXCEPT !.bots[botId].holdings = RemoveAt(@, idx),
                      !.bots[botId].tokens_per_stage[removed.stage + 1] =
                          @ - removed.quantity,
                      !.bots[botId].weighted_points = @ - removed.quantity]

removeHolding(st, botId, stage, period) ==
  LET bot == st.bots[botId]
      Match(h) == h.stage = stage /\ h.period = period
      idx == FindIndex(bot.holdings, Match)
      removed == bot.holdings[idx]
  IN  IF idx = 0 THEN st
      ELSE [st EXCEPT !.bots[botId].holdings = RemoveAt(@, idx),
                      !.bots[botId].tokens_per_stage[removed.stage + 1] =
                          @ - removed.quantity,
                      !.bots[botId].weighted_points =
                          @ - removed.quantity * removed.points_per_token]

addPeriodResult(st, record) ==
  [st EXCEPT !.period_results = Append(@, record)]

\* index in period_results of getPeriodResult(stage, period), 0 if none
getPeriodResultIdx(st, stage, period) ==
  LET Match(r) == r.stage = stage /\ r.period = period
  IN  FindIndex(st.period_results, Match)

\* mutant: the rescind becomes public one period early
addPendingRescind_revealNext(st, rescind) ==
  [st EXCEPT !.pending_rescinds =
      Append(@, [rescind EXCEPT !.reveal_at_absolute = @ - 1])]

addPendingRescind(st, rescind) ==
  [st EXCEPT !.pending_rescinds = Append(@, rescind)]

\* revealRescinds: the returned list ...
toReveal(st, atAbsolutePeriod) ==
  SelectSeq(st.pending_rescinds,
            LAMBDA r : r.reveal_at_absolute <= atAbsolutePeriod)

\* ... and the store it leaves
revealRescinds(st, atAbsolutePeriod) ==
  [st EXCEPT !.pending_rescinds =
      SelectSeq(@, LAMBDA r : r.reveal_at_absolute > atAbsolutePeriod)]

\* mutant: the injection is queued for the next period
addRescindSupply_nextPeriod(st, entry) ==
  [st EXCEPT !.rescind_supply_queue =
      Append(@, [entry EXCEPT !.target_absolute_period = @ - 1])]

addRescindSupply(st, entry) ==
  [st EXCEPT !.rescind_supply_queue = Append(@, entry)]

\* mutant: the supply of every earlier target is added as well
getRescindSupplyForPeriod_upTo(st, absPeriod) ==
  SumSeq(Map(SelectSeq(st.rescind_supply_queue,
                       LAMBDA e : e.target_absolute_period <= absPeriod),
             LAMBDA e : e.tokens))

getRescindSupplyForPeriod(st, absPeriod) ==
  SumSeq(Map(SelectSeq(st.rescind_supply_queue,
                       LAMBDA e : e.target_absolute_period = absPeriod),
             LAMBDA e : e.tokens))

awardSP(st, botId, points) == [st EXCEPT !.bots[botId].sp = @ + points]

\* mutant: the agents without tokens in the stage are ranked too
getStageRanking_noFilter(st, stage) ==
  LET entries == Map(getAllBots(st),
                     LAMBDA b : [bot_id |-> b.bot_id,
                                 tokens |-> b.tokens_per_stage[stage + 1]])
      Before(a, b) == IF b.tokens # a.tokens THEN b.tokens - a.tokens < 0
                      ELSE LocaleBefore(a.bot_id, b.bot_id)
  IN  StableSort(entries, Before)

getStageRanking(st, stage) ==
  LET entries == Map(getAllBots(st),
                     LAMBDA b : [bot_id |-> b.bot_id,
                                 tokens |-> b.tokens_per_stage[stage + 1]])
      positive == SelectSeq(entries, LAMBDA e : e.tokens > 0)
      Before(a, b) == IF b.tokens # a.tokens THEN b.tokens - a.tokens < 0
                      ELSE LocaleBefore(a.bot_id, b.bot_id)
  IN  StableSort(positive, Before)

getOverallRanking(st) ==
  LET entries == Map(getAllBots(st),
                     LAMBDA b : [bot_id |-> b.bot_id,
                                 weighted_points |-> b.weighted_points])
      Before(a, b) == IF b.weighted_points # a.weighted_points
                      THEN b.weighted_points - a.weighted_points < 0
                      ELSE LocaleBefore(a.bot_id, b.bot_id)
  IN  StableSort(entries, Before)

----------------------------------------------------------------------------
(* Clearing strategies *)

\* mutant: the comparator looks at the price only
BidBefore_priceOnly(a, b) ==
  b.price_per_token - a.price_per_token < 0

\* Sort descending by price, FIFO tiebreak (both strategies)
BidBefore(a, b) ==
  IF b.price_per_token - a.price_per_token # 0
  THEN b.price_per_token - a.price_per_token < 0
  ELSE a.submitted_at - b.submitted_at < 0

\* mutant: first-price, the winner pays its own bid
VickreyClear_firstPrice(bids, supply, floorPrice) ==
  LET validBids == SelectSeq(bids, LAMBDA b : b.price_per_token >= floorPrice)
      sorted == StableSort(validBids, BidBefore)
      winner == sorted[1]
      paymentPrice == winner.price_per_token
      allocation == [bot_id |-> winner.bot_id,
                     tokens_allocated |-> supply,
                     price_paid_per_token |-> paymentPrice,
                     total_paid |-> paymentPrice * supply]
  IN  IF Len(validBids) = 0
      THEN [clearing_price |-> floorPrice, allocations |-> <<>>,
            total_tokens_allocated |-> 0]
      ELSE [clearing_price |-> paymentPrice, allocations |-> <<allocation>>,
            total_tokens_allocated |-> supply]

VickreyClear(bids, supply, floorPrice) ==
  LET validBids == SelectSeq(bids, LAMBDA b : b.price_per_token >= floorPrice)
      sorted == StableSort(validBids, BidBefore)
      winner == sorted[1]
      second == IF Len(sorted) >= 2 THEN sorted[2].price_per_token
                ELSE floorPrice
      paymentPrice == IF second < floorPrice THEN floorPrice ELSE second
      allocation == [bot_id |-> winner.bot_id,
                     tokens_allocated |-> supply,
                     price_paid_per_token |-> paymentPrice,
                     total_paid |-> paymentPrice * supply]
  IN  IF Len(validBids) = 0
      THEN [clearing_price |-> floorPrice, allocations |-> <<>>,
            total_tokens_allocated |-> 0]
      ELSE [clearing_price |-> paymentPrice, allocations |-> <<allocation>>,
            total_tokens_allocated |-> supply]

RECURSIVE GCD(_, _)
GCD(a, b) == IF b = 0 THEN a ELSE GCD(b, a % b)

\* round(num / den) to a whole number of units, ROUND_HALF_EVEN
RoundHalfEven(num, den) ==
  LET q == num \div den
      r == num % den
  IN  IF 2 * r < den THEN q
      ELSE IF 2 * r > den THEN q + 1
      ELSE IF q % 2 = 0 THEN q ELSE q + 1

\* remaining.mul(quantity.div(totalAtClearing)).toDecimalPlaces(8, ROUND_HALF_EVEN)
ProRataShare(remaining, quantity, totalAtClearing) ==
  LET g == GCD(quantity, totalAtClearing)
  IN  RoundHalfEven(remaining * (quantity \div g), totalAtClearing \div g)

\* the pro-rata loop over atClearing, from index i on
RECURSIVE ProRataLoop(_, _, _, _, _, _)
ProRataLoop(atClearing, i, remaining, totalAtClearing, clearingPrice, proRataAllocated) ==
  IF i > Len(atClearing) THEN <<>>
  ELSE
    LET entry == atClearing[i]
        tokens == IF i = Len(atClearing)
                  THEN remaining - proRataAllocated
                  ELSE ProRataShare(remaining, entry.quantity, totalAtClearing)
    IN  IF tokens > 0
        THEN <<[bot_id |-> entry.bid.bot_id,
                tokens_allocated |-> tokens,
                price_paid_per_token |-> clearingPrice,
                total_paid |-> tokens * clearingPrice]>>
             \o ProRataLoop(atClearing, i + 1, remaining, totalAtClearing,
                            clearingPrice, proRataAllocated + tokens)
        ELSE ProRataLoop(atClearing, i + 1, remaining, totalAtClearing,
                         clearingPrice, proRataAllocated)

\* mutant: only a demand strictly below the supply counts as
\* under-subscription
UniformPriceClear_strictUnder(bids, supply, floorPrice) ==
  LET validBids == SelectSeq(bids, LAMBDA b :
                       b.price_per_token >= floorPrice /\ b.total_cost > 0)
      \* quantity = total_cost / price_per_token
      entries0 == Map(validBids, LAMBDA b :
                      [bid |-> b, price |-> b.price_per_token,
                       quantity |-> b.total_cost \div b.price_per_token])
      entries == StableSort(entries0, LAMBDA a, b : BidBefore(a.bid, b.bid))
      totalDemand == SumSeq(Map(entries, LAMBDA e : e.quantity))
      cumulative(i) == SumSeq(Map(SubSeq(entries, 1, i), LAMBDA e : e.quantity))
      marginal == CHOOSE i \in DOMAIN entries :
                     /\ cumulative(i) >= supply
                     /\ \A j \in 1..(i-1) : ~(cumulative(j) >= supply)
      clearingPrice == entries[marginal].price
      aboveClearing == SelectSeq(entries, LAMBDA e : e.price > clearingPrice)
      atClearing == SelectSeq(entries, LAMBDA e : e.price = clearingPrice)
      fullFills == Map(aboveClearing, LAMBDA e :
                       [bot_id |-> e.bid.bot_id,
                        tokens_allocated |-> e.quantity,
                        price_paid_per_token |-> clearingPrice,
                        total_paid |-> e.quantity * clearingPrice])
      tokensAbove == SumSeq(Map(aboveClearing, LAMBDA e : e.quantity))
      remaining == supply - tokensAbove
      totalAtClearing == SumSeq(Map(atClearing, LAMBDA e : e.quantity))
      proRata == IF remaining > 0 /\ Len(atClearing) > 0
                 THEN ProRataLoop(atClearing, 1, remaining, totalAtClearing,
                                  clearingPrice, 0)
                 ELSE <<>>
      allocations == fullFills \o proRata
  IN  IF Len(validBids) = 0
      THEN [clearing_price |-> floorPrice, allocations |-> <<>>,
            total_tokens_allocated |-> 0]
      ELSE IF totalDemand < supply
      THEN [clearing_price |-> floorPrice,
            allocations |-> Map(entries, LAMBDA e :
                       [bot_id |-> e.bid.bot_id,
                        tokens_allocated |-> e.quantity,
                        price_paid_per_token |-> floorPrice,
                        total_paid |-> e.quantity * floorPrice]),
            total_tokens_allocated |-> totalDemand]
      ELSE [clearing_price |-> clearingPrice, allocations |-> allocations,
            total_tokens_allocated |->
                SumSeq(Map(allocations, LAMBDA a : a.tokens_allocated))]

\* mutant: the bids above the clearing price pay their own price
UniformPriceClear_payAsBid(bids, supply, floorPrice) ==
  LET validBids == SelectSeq(bids, LAMBDA b :
                       b.price_per_token >= floorPrice /\ b.total_cost > 0)
      \* quantity = total_cost / price_per_token
      entries0 == Map(validBids, LAMBDA b :
                      [bid |-> b, price |-> b.price_per_token,
                       quantity |-> b.total_cost \div b.price_per_token])
      entries == StableSort(entries0, LAMBDA a, b : BidBefore(a.bid, b.bid))
      totalDemand == SumSeq(Map(entries, LAMBDA e : e.quantity))
      cumulative(i) == SumSeq(Map(SubSeq(entries, 1, i), LAMBDA e : e.quantity))
      marginal == CHOOSE i \in DOMAIN entries :
                     /\ cumulative(i) >= supply
                     /\ \A j \in 1..(i-1) : ~(cumulative(j) >= supply)
      clearingPrice == entries[marginal].price
      aboveClearing == SelectSeq(entries, LAMBDA e : e.price > clearingPrice)
      atClearing == SelectSeq(entries, LAMBDA e : e.price = clearingPrice)
      fullFills == Map(aboveClearing, LAMBDA e :
                       [bot_id |-> e.bid.bot_id,
                        tokens_allocated |-> e.quantity,
                        price_paid_per_token |-> e.price,
                        total_paid |-> e.quantity * e.price])
      tokensAbove == SumSeq(Map(aboveClearing, LAMBDA e : e.quantity))
      remaining == supply - tokensAbove
      totalAtClearing == SumSeq(Map(atClearing, LAMBDA e : e.quantity))
      proRata == IF remaining > 0 /\ Len(atClearing) > 0
                 THEN ProRataLoop(atClearing, 1, remaining, totalAtClearing,
                                  clearingPrice, 0)
                 ELSE <<>>
      allocations == fullFills \o proRata
  IN  IF Len(validBids) = 0
      THEN [clearing_price |-> floorPrice, allocations |-> <<>>,
            total_tokens_allocated |-> 0]
      ELSE IF totalDemand <= supply
      THEN [clearing_price |-> floorPrice,
            allocations |-> Map(entries, LAMBDA e :
                       [bot_id |-> e.bid.bot_id,
                        tokens_allocated |-> e.quantity,
                        price_paid_per_token |-> floorPrice,
                        total_paid |-> e.quantity * floorPrice]),
            total_tokens_allocated |-> totalDemand]
      ELSE [clearing_price |-> clearingPrice, allocations |-> allocations,
            total_tokens_allocated |->
                SumSeq(Map(allocations, LAMBDA a : a.tokens_allocated))]

UniformPriceClear(bids, supply, floorPrice) ==
  LET validBids == SelectSeq(bids, LAMBDA b :
                       b.price_per_token >= floorPrice /\ b.total_cost > 0)
      \* quantity = total_cost / price_per_token
      entries0 == Map(validBids, LAMBDA b :
                      [bid |-> b, price |-> b.price_per_token,
                       quantity |-> b.total_cost \div b.price_per_token])
      entries == StableSort(entries0, LAMBDA a, b : BidBefore(a.bid, b.bid))
      totalDemand == SumSeq(Map(entries, LAMBDA e : e.quantity))
      cumulative(i) == SumSeq(Map(SubSeq(entries, 1, i), LAMBDA e : e.quantity))
      marginal == CHOOSE i \in DOMAIN entries :
                     /\ cumulative(i) >= supply
                     /\ \A j \in 1..(i-1) : ~(cumulative(j) >= supply)
      clearingPrice == entries[marginal].price
      aboveClearing == SelectSeq(entries, LAMBDA e : e.price > clearingPrice)
      atClearing == SelectSeq(entries, LAMBDA e : e.price = clearingPrice)
      fullFills == Map(aboveClearing, LAMBDA e :
                       [bot_id |-> e.bid.bot_id,
                        tokens_allocated |-> e.quantity,
                        price_paid_per_token |-> clearingPrice,
                        total_paid |-> e.quantity * clearingPrice])
      tokensAbove == SumSeq(Map(aboveClearing, LAMBDA e : e.quantity))
      remaining == supply - tokensAbove
      totalAtClearing == SumSeq(Map(atClearing, LAMBDA e : e.quantity))
      proRata == IF remaining > 0 /\ Len(atClearing) > 0
                 THEN ProRataLoop(atClearing, 1, remaining, totalAtClearing,
                                  clearingPrice, 0)
                 ELSE <<>>
      allocations == fullFills \o proRata
  IN  IF Len(validBids) = 0
      THEN [clearing_price |-> floorPrice, allocations |-> <<>>,
            total_tokens_allocated |-> 0]
      ELSE IF totalDemand <= supply
      THEN [clearing_price |-> floorPrice,
            allocations |-> Map(entries, LAMBDA e :
                       [bot_id |-> e.bid.bot_id,
                        tokens_allocated |-> e.quantity,
                        price_paid_per_token |-> floorPrice,
                        total_paid |-> e.quantity * floorPrice]),
            total_tokens_allocated |-> totalDemand]
      ELSE [clearing_price |-> clearingPrice, allocations |-> allocations,
            total_tokens_allocated |->
                SumSeq(Map(allocations, LAMBDA a : a.tokens_allocated))]

\* getStrategy(type).clear(...), for the two implemented strategies
StrategyClear(type, bids, supply, floorPrice) ==
  IF type = "vickrey" THEN VickreyClear(bids, supply, floorPrice)
  ELSE UniformPriceClear(bids, supply, floorPrice)

\* strategyFactory: the own keys of strategyMap, in insertion order
strategyMap ==
  <<"vickrey", "uniform_price", "discriminatory", "dutch", "sealed_first">>

\* the strategies whose clear() is written; clear() of the other three
\* (DiscriminatoryStrategy, DutchAuctionStrategy, SealedFirstPriceStrategy)
\* is a single throw
Implemented == {"vickrey", "uniform_price"}

\* strategyMap is an object literal: strategyMap[type] also finds what the
\* object inherits from Object.prototype.  Called without a receiver and
\* without arguments, constructor returns a new empty object and toString
\* returns a string; hasOwnProperty is one of those that throw a TypeError.
InheritedReturning == {"constructor", "toString"}

\* getStrategy(): threw is TRUE when the call throws ("Unknown clearing
\* strategy", or the TypeError of an inherited function); strategy is the
\* type of the instance returned, Null when what is returned is no strategy
getStrategy(type) ==
  IF \E i \in DOMAIN strategyMap : strategyMap[i] = type
  THEN [threw |-> FALSE, strategy |-> type]
  ELSE IF type \in InheritedReturning
  THEN [threw |-> FALSE, strategy |-> Null]
  ELSE [threw |-> TRUE, strategy |-> Null]

\* strategy.clear() on what getStrategy() returned: threw is TRUE for the
\* three placeholders, and for a value that has no clear function
clearOf(strategy, bids, supply, floorPrice) ==
  IF strategy \in Implemented
  THEN [threw |-> FALSE,
        result |-> StrategyClear(strategy, bids, supply, floorPrice)]
  ELSE [threw |-> TRUE, result |-> <<>>]

\* isStrategyImplemented()
isStrategyImplemented(type) ==
  LET resolved == getStrategy(type)
  IN  /\ ~resolved.threw
      /\ ~clearOf(resolved.strategy, <<>>, 0, 0).threw

\* listStrategies()
listStrategies == strategyMap

----------------------------------------------------------------------------
(* TournamentEngine: pure parts *)

absoluteToStagePeriod(cfg, absPeriod) ==
  LET before(s) == SumSeq([i \in 1..(s-1) |-> cfg.stages[i].num_periods])
      hit(s) == absPeriod - before(s) < cfg.stages[s].num_periods
  IN  IF \E s \in DOMAIN cfg.stages : hit(s)
      THEN LET s == CHOOSE t \in DOMAIN cfg.stages :
                       hit(t) /\ \A u \in 1..(t-1) : ~hit(u)
           IN  [stage |-> s - 1, period |-> absPeriod - before(s)]
      ELSE [stage |-> Len(cfg.stages) - 1,
            period |-> cfg.stages[Len(cfg.stages)].num_periods - 1]

\* buildObservation() with the bids collected so far shown as the newest
\* entry of the history
buildObservation_seesBids(st, cfg, botId, ctx) ==
  LET bot == st.bots[botId]
      stageConfig == cfg.stages[ctx.stage + 1]
  IN  [stage |-> ctx.stage,
       period |-> ctx.period,
       absolute_period |-> ctx.absolute_period,
       periods_remaining_in_stage |-> stageConfig.num_periods - ctx.period - 1,
       stages_remaining |-> Len(cfg.stages) - ctx.stage - 1,
       remaining_budget |-> bot.remaining_budget,
       holdings |-> bot.holdings,
       weighted_points |-> bot.weighted_points,
       tokens_per_stage |-> bot.tokens_per_stage,
       sp |-> bot.sp,
       tokens_available |-> ctx.tokens_available,
       floor_price |-> ctx.floor_price,
       points_per_token |-> ctx.points_per_token,
       history |-> st.period_results \o
                     (IF allBids = <<>> THEN <<>>
                      ELSE <<[stage |-> ctx.stage, period |-> ctx.period,
                              absolute_period |-> ctx.absolute_period,
                              bids_submitted |-> allBids]>>),
       leaderboard |-> Map(getAllBots(st), LAMBDA b :
                           [bot_id |-> b.bot_id,
                            tokens_per_stage |-> b.tokens_per_stage,
                            weighted_points |-> b.weighted_points,
                            sp |-> b.sp]),
       private_rescind_info |-> bot.private_info]

buildObservation(st, cfg, botId, ctx) ==
  LET bot == st.bots[botId]
      stageConfig == cfg.stages[ctx.stage + 1]
  IN  [stage |-> ctx.stage,
       period |-> ctx.period,
       absolute_period |-> ctx.absolute_period,
       periods_remaining_in_stage |-> stageConfig.num_periods - ctx.period - 1,
       stages_remaining |-> Len(cfg.stages) - ctx.stage - 1,
       remaining_budget |-> bot.remaining_budget,
       holdings |-> bot.holdings,
       weighted_points |-> bot.weighted_points,
       tokens_per_stage |-> bot.tokens_per_stage,
       sp |-> bot.sp,
       tokens_available |-> ctx.tokens_available,
       floor_price |-> ctx.floor_price,
       points_per_token |-> ctx.points_per_token,
       history |-> st.period_results,
       leaderboard |-> Map(getAllBots(st), LAMBDA b :
                           [bot_id |-> b.bot_id,
                            tokens_per_stage |-> b.tokens_per_stage,
                            weighted_points |-> b.weighted_points,
                            sp |-> b.sp]),
       private_rescind_info |-> bot.private_info]

\* mutant: the holding of the rescinded period stays with the agent
processRescind_keepsHolding(st, cfg, botId, ctx, allocation, absPeriod) ==
  LET st2 == refundBudget(st, botId, allocation.total_paid)
      targetAbsolute == absPeriod + RESCIND_REVEAL_DELAY
      pendingRescind == [bot_id |-> botId,
                         source_stage |-> ctx.stage,
                         source_period |-> ctx.period,
                         tokens |-> allocation.tokens_allocated,
                         price_refunded_per_token |-> allocation.price_paid_per_token,
                         total_refunded |-> allocation.total_paid,
                         rescinded_at_absolute |-> absPeriod,
                         reveal_at_absolute |-> targetAbsolute]
      st3 == addPendingRescind(st2, pendingRescind)
      supplyEntry == [target_absolute_period |-> targetAbsolute,
                      tokens |-> allocation.tokens_allocated]
      st4 == addRescindSupply(st3, supplyEntry)
      target == absoluteToStagePeriod(cfg, targetAbsolute)
  IN  [st4 EXCEPT !.bots[botId].private_info =
          Append(@, [target_stage |-> target.stage,
                     target_period |-> target.period,
                     tokens |-> allocation.tokens_allocated,
                     reveal_at_absolute_period |-> targetAbsolute])]

processRescind(st, cfg, botId, ctx, allocation, absPeriod) ==
  LET st1 == removeHolding(st, botId, ctx.stage, ctx.period)
      st2 == refundBudget(st1, botId, allocation.total_paid)
      targetAbsolute == absPeriod + RESCIND_REVEAL_DELAY
      pendingRescind == [bot_id |-> botId,
                         source_stage |-> ctx.stage,
                         source_period |-> ctx.period,
                         tokens |-> allocation.tokens_allocated,
                         price_refunded_per_token |-> allocation.price_paid_per_token,
                         total_refunded |-> allocation.total_paid,
                         rescinded_at_absolute |-> absPeriod,
                         reveal_at_absolute |-> targetAbsolute]
      st3 == addPendingRescind(st2, pendingRescind)
      supplyEntry == [target_absolute_period |-> targetAbsolute,
                      tokens |-> allocation.tokens_allocated]
      st4 == addRescindSupply(st3, supplyEntry)
      target == absoluteToStagePeriod(cfg, targetAbsolute)
  IN  [st4 EXCEPT !.bots[botId].private_info =
          Append(@, [target_stage |-> target.stage,
                     target_period |-> target.period,
                     tokens |-> allocation.tokens_allocated,
                     reveal_at_absolute_period |-> targetAbsolute])]

RECURSIVE processRescindRevelations(_, _)
processRescindRevelations(st, revealed) ==
  IF revealed = <<>> THEN st
  ELSE
    LET rescind == Head(revealed)
        idx == getPeriodResultIdx(st, rescind.source_stage, rescind.source_period)
        st1 == IF idx # 0
               THEN [st EXCEPT !.period_results[idx].rescinded = "true"]
               ELSE st
        st2 == [st1 EXCEPT !.bots[rescind.bot_id].private_info =
                   SelectSeq(@, LAMBDA info :
                     info.reveal_at_absolute_period # rescind.reveal_at_absolute)]
    IN  processRescindRevelations(st2, Tail(revealed))

RECURSIVE awardLoop(_, _, _, _)
awardLoop(st, ranking, spAwards, i) ==
  IF i > Min(Len(ranking), Len(spAwards)) THEN st
  ELSE awardLoop(awardSP(st, ranking[i].bot_id, spAwards[i]),
                 ranking, spAwards, i + 1)

awardStageSP(st, cfg, sIdx) ==
  awardLoop(st, getStageRanking(st, sIdx), cfg.sp_awards, 1)

\* awardOverallBonusSP() without the test for positive weighted points
awardOverallBonusSP_noPositiveTest(st, cfg) ==
  LET ranking == getOverallRanking(st)
  IN  IF Len(ranking) > 0
      THEN awardSP(st, ranking[1].bot_id, cfg.overall_bonus_sp)
      ELSE st

awardOverallBonusSP(st, cfg) ==
  LET ranking == getOverallRanking(st)
  IN  IF Len(ranking) > 0 /\ ranking[1].weighted_points > 0
      THEN awardSP(st, ranking[1].bot_id, cfg.overall_bonus_sp)
      ELSE st

\* buildResult() sorting the leaderboard by SP alone
buildResult_noTiebreak(st, cfg) ==
  LET allBots == getAllBots(st)
      entries == Map(allBots, LAMBDA b :
                     [bot_id |-> b.bot_id,
                      tokens_per_stage |-> b.tokens_per_stage,
                      weighted_points |-> b.weighted_points,
                      sp |-> b.sp])
      Before(a, b) == b.sp - a.sp < 0
      finalLeaderboard == StableSort(entries, Before)
      count(P(_)) == Len(SelectSeq(st.period_results, P))
      summary(id) ==
        LET bot == st.bots[id]
        IN  [bot_id |-> id,
             total_sp |-> bot.sp,
             weighted_points |-> bot.weighted_points,
             tokens_per_stage |-> bot.tokens_per_stage,
             budget_spent |-> cfg.budget_per_bot - bot.remaining_budget,
             budget_remaining |-> bot.remaining_budget,
             periods_won |-> count(LAMBDA r :
                 r.winner_bot_id = id /\ r.rescinded # "true"),
             rescinds_made |-> count(LAMBDA r :
                 r.winner_bot_id = id /\ r.rescinded = "true")]
  IN  [final_leaderboard |-> finalLeaderboard,
       winner_bot_id |-> IF Len(finalLeaderboard) > 0
                         THEN finalLeaderboard[1].bot_id ELSE "",
       all_period_results |-> st.period_results,
       bot_summaries |-> [id \in BotIds |-> summary(id)]]

buildResult(st, cfg) ==
  LET allBots == getAllBots(st)
      entries == Map(allBots, LAMBDA b :
                     [bot_id |-> b.bot_id,
                      tokens_per_stage |-> b.tokens_per_stage,
                      weighted_points |-> b.weighted_points,
                      sp |-> b.sp])
      Before(a, b) == IF b.sp # a.sp THEN b.sp - a.sp < 0
                      ELSE b.weighted_points - a.weighted_points < 0
      finalLeaderboard == StableSort(entries, Before)
      count(P(_)) == Len(SelectSeq(st.period_results, P))
      summary(id) ==
        LET bot == st.bots[id]
        IN  [bot_id |-> id,
             total_sp |-> bot.sp,
             weighted_points |-> bot.weighted_points,
             tokens_per_stage |-> bot.tokens_per_stage,
             budget_spent |-> cfg.budget_per_bot - bot.remaining_budget,
             budget_remaining |-> bot.remaining_budget,
             periods_won |-> count(LAMBDA r :
                 r.winner_bot_id = id /\ r.rescinded # "true"),
             rescinds_made |-> count(LAMBDA r :
                 r.winner_bot_id = id /\ r.rescinded = "true")]
  IN  [final_leaderboard |-> finalLeaderboard,
       winner_bot_id |-> IF Len(finalLeaderboard) > 0
                         THEN finalLeaderboard[1].bot_id ELSE "",
       all_period_results |-> st.period_results,
       bot_summaries |-> [id \in BotIds |-> summary(id)]]

\* run(): steps 1 and 2 of a period, on the store
revealAtPeriodStart(st, sIdx, pIdx, absPeriod) ==
  LET st1 == setCurrentPeriod(setCurrentStage(st, sIdx), pIdx)
      revealedRescinds == toReveal(st1, absPeriod)
      st2 == revealRescinds(st1, absPeriod)
  IN  processRescindRevelations(st2, revealedRescinds)

\* run(): periodContext
periodContextOf(st, cfg, sIdx, pIdx, absPeriod) ==
  LET stageConfig == cfg.stages[sIdx + 1]
      baseSupplyPerPeriod == stageConfig.base_token_supply \div stageConfig.num_periods
      rescindExtra == getRescindSupplyForPeriod(st, absPeriod)
  IN  [stage |-> sIdx, period |-> pIdx, absolute_period |-> absPeriod,
       tokens_available |-> baseSupplyPerPeriod + rescindExtra,
       floor_price |-> stageConfig.floor_price,
       points_per_token |-> stageConfig.points_per_token]

\* mutant: only the last period of the terminal stage is excluded
rescindAllowedAt_offByOne(cfg, sIdx, pIdx) ==
  LET isTerminalStage == sIdx = Len(cfg.stages) - 1
      periodsFromEnd == cfg.stages[sIdx + 1].num_periods - 1 - pIdx
  IN  ~(isTerminalStage /\ periodsFromEnd < RESCIND_REVEAL_DELAY - 1)

\* run(): rescindAllowed
rescindAllowedAt(cfg, sIdx, pIdx) ==
  LET isTerminalStage == sIdx = Len(cfg.stages) - 1
      periodsFromEnd == cfg.stages[sIdx + 1].num_periods - 1 - pIdx
  IN  ~(isTerminalStage /\ periodsFromEnd < RESCIND_REVEAL_DELAY)

\* mutant: the cap is applied to the admitted bids, not to the offers
admitBids_capAfterTests(st, ctx, botId, offers, maxBidsPerPeriod) ==
  LET bot == st.bots[botId]
      totalCost(price) == price * ctx.tokens_available
      ok(price) == /\ ~(price < ctx.floor_price)
                   /\ ~(totalCost(price) > bot.remaining_budget)
                   /\ ~(price <= 0)
  IN  Map(Slice(SelectSeq(offers, ok), maxBidsPerPeriod), LAMBDA price :
          [bot_id |-> botId, stage |-> ctx.stage, period |-> ctx.period,
           price_per_token |-> price, total_cost |-> totalCost(price),
           submitted_at |-> ctx.absolute_period])

\* mutant: the budget test of the admission is missing
admitBids_noBudgetCheck(st, ctx, botId, offers, maxBidsPerPeriod) ==
  LET bidSlice == Slice(offers, maxBidsPerPeriod)
      totalCost(price) == price * ctx.tokens_available
      ok(price) == /\ ~(price < ctx.floor_price)
                   /\ ~(price <= 0)
  IN  Map(SelectSeq(bidSlice, ok), LAMBDA price :
          [bot_id |-> botId, stage |-> ctx.stage, period |-> ctx.period,
           price_per_token |-> price, total_cost |-> totalCost(price),
           submitted_at |-> ctx.absolute_period])

\* runPeriod(): the bids admitted from one decision of botId
admitBids(st, ctx, botId, offers, maxBidsPerPeriod) ==
  LET bidSlice == Slice(offers, maxBidsPerPeriod)
      bot == st.bots[botId]
      totalCost(price) == price * ctx.tokens_available
      ok(price) == /\ ~(price < ctx.floor_price)
                   /\ ~(totalCost(price) > bot.remaining_budget)
                   /\ ~(price <= 0)
  IN  Map(SelectSeq(bidSlice, ok), LAMBDA price :
          [bot_id |-> botId, stage |-> ctx.stage, period |-> ctx.period,
           price_per_token |-> price, total_cost |-> totalCost(price),
           submitted_at |-> ctx.absolute_period])

\* runPeriod(): the allocation loop; ok is FALSE when deductBudget threw
RECURSIVE applyAllocations(_, _, _)
applyAllocations(st, allocations, ctx) ==
  IF allocations = <<>> THEN [st |-> st, ok |-> TRUE]
  ELSE
    LET alloc == Head(allocations)
        holding == [stage |-> ctx.stage, period |-> ctx.period,
                    quantity |-> alloc.tokens_allocated,
                    price_paid_per_token |-> alloc.price_paid_per_token,
                    points_per_token |-> ctx.points_per_token]
    IN  IF ~CanDeduct(st, alloc.bot_id, alloc.total_paid)
        THEN [st |-> st, ok |-> FALSE]
        ELSE applyAllocations(
               addHolding(deductBudget(st, alloc.bot_id, alloc.total_paid),
                          alloc.bot_id, holding),
               Tail(allocations), ctx)

\* runPeriod(): winnerBotId
winnerOf(cr) ==
  IF Len(cr.allocations) = 1 THEN cr.allocations[1].bot_id ELSE Null

\* runPeriod(): the returned PeriodResult (also prelimResult)
periodResultOf(ctx, absPeriod, cr, rescinded, bids, strategyType) ==
  [stage |-> ctx.stage, period |-> ctx.period, absolute_period |-> absPeriod,
   tokens_available |-> ctx.tokens_available, floor_price |-> ctx.floor_price,
   points_per_token |-> ctx.points_per_token,
   clearing_price |-> cr.clearing_price, allocations |-> cr.allocations,
   rescinded |-> rescinded, winner_bot_id |-> winnerOf(cr),
   bids_submitted |-> bids, strategy_used |-> strategyType]

\* mutant: the phase stays stage_transition after the end of a stage
afterPeriod_staysInTransition(st, cfg, record, sIdx, pIdx) ==
  LET st1 == addPeriodResult(st, record)
      stageOver == ~(pIdx + 1 < cfg.stages[sIdx + 1].num_periods)
      st2 == awardStageSP(st1, cfg, sIdx)
      moreStages == sIdx < Len(cfg.stages) - 1
  IN  IF ~stageOver THEN st1
      ELSE IF moreStages
      THEN setPhase(st2, "stage_transition")
      ELSE setPhase(awardOverallBonusSP(st2, cfg), "completed")

\* run(): what follows runPeriod() up to the next period start or the end
afterPeriod(st, cfg, record, sIdx, pIdx) ==
  LET st1 == addPeriodResult(st, record)
      stageOver == ~(pIdx + 1 < cfg.stages[sIdx + 1].num_periods)
      st2 == awardStageSP(st1, cfg, sIdx)
      moreStages == sIdx < Len(cfg.stages) - 1
  IN  IF ~stageOver THEN st1
      ELSE IF moreStages
      THEN setPhase(setPhase(st2, "stage_transition"), "stage_active")
      ELSE setPhase(awardOverallBonusSP(st2, cfg), "completed")

----------------------------------------------------------------------------
(* Agent decisions *)

\* the offer lists (prices per token) decideBids may return
BidDecisions ==
  {<<>>, <<0>>, <<LowBid>>, <<HighBid, LowBid>>, <<LowBid, HighBid>>,
   <<LowBid, LowBid, LowBid>>}

\* what decideRescind may do
RescindDecisions == {"keep", "rescind", "throw"}

----------------------------------------------------------------------------
(* Initial state: a constructed engine, run() not yet called *)

NoContext ==
  [stage |-> -1, period |-> -1, absolute_period |-> -1, tokens_available |-> 0,
   floor_price |-> 0, points_per_token |-> 0]

NoClearing ==
  [clearing_price |-> 0, allocations |-> <<>>, total_tokens_allocated |-> 0]

NoCall ==
  [op |-> "none", bot_id |-> Null, observation |-> <<>>, prelim |-> <<>>,
   threw |-> FALSE, offers |-> <<>>, rescind |-> FALSE]

NoResult ==
  [final_leaderboard |-> <<>>, winner_bot_id |-> "",
   all_period_results |-> <<>>, bot_summaries |-> <<>>]

Init ==
  /\ config \in Configs
  /\ \E agents \in AgentLists : state = NewStore(config, agents)
  /\ pc = "not_started"
  /\ stageIdx = 0
  /\ periodIdx = 0
  /\ absolutePeriod = 0
  /\ context = NoContext
  /\ rescindAllowed = FALSE
  /\ botIdx = 1
  /\ allBids = <<>>
  /\ clearingResult = NoClearing
  /\ lastCall = NoCall
  /\ twin = [valid |-> FALSE, winner |-> Null, state |-> state,
             context |-> NoContext, before |-> state]
  /\ result = NoResult

----------------------------------------------------------------------------
(* Actions *)

\* run(): entry
Run ==
  /\ pc = "not_started"
  /\ state' = setPhase(state, "stage_active")
  /\ pc' = "begin"
  /\ twin' = [twin EXCEPT !.state = state']
  /\ UNCHANGED <<config, stageIdx, periodIdx, absolutePeriod, context,
                 rescindAllowed, botIdx, allBids, clearingResult, lastCall,
                 result>>

\* run(): steps 1 to 3 of a period
BeginPeriod ==
  /\ pc = "begin"
  /\ state' = revealAtPeriodStart(state, stageIdx, periodIdx, absolutePeriod)
  /\ context' = periodContextOf(state', config, stageIdx, periodIdx, absolutePeriod)
  /\ rescindAllowed' = rescindAllowedAt(config, stageIdx, periodIdx)
  /\ botIdx' = 1
  /\ allBids' = <<>>
  /\ lastCall' = NoCall
  /\ pc' = IF Len(botOrder) = 0 THEN "clear" ELSE "collect"
  /\ LET tst == revealAtPeriodStart(twin.state, stageIdx, periodIdx, absolutePeriod)
     IN  twin' = [twin EXCEPT
                    !.state = tst,
                    !.context = periodContextOf(tst, config, stageIdx,
                                                periodIdx, absolutePeriod)]
  /\ UNCHANGED <<config, stageIdx, periodIdx, absolutePeriod, clearingResult,
                 result>>

\* DecideBids without the catch: a failing decideBids ends run()
DecideBids_noCatch ==
  /\ pc = "collect"
  /\ \E offers \in BidDecisions, threw \in BOOLEAN :
       LET botId == botOrder[botIdx]
           observation == buildObservation(state, config, botId, context)
           maxBids == config.stages[stageIdx + 1].max_bids_per_period
       IN  /\ threw => offers = <<>>
           /\ allBids' = IF threw THEN allBids
                         ELSE allBids \o admitBids(state, context, botId,
                                                   offers, maxBids)
           /\ lastCall' = [op |-> "decideBids", bot_id |-> botId,
                           observation |-> observation, prelim |-> <<>>,
                           threw |-> threw, offers |-> offers,
                           rescind |-> FALSE]
           /\ pc' = IF threw THEN "crashed"
                    ELSE IF botIdx = Len(botOrder) THEN "clear" ELSE "collect"
  /\ botIdx' = botIdx + 1
  /\ UNCHANGED <<config, state, stageIdx, periodIdx, absolutePeriod, context,
                 rescindAllowed, clearingResult, twin, result>>

\* runPeriod(): one iteration of the loop over botIds
DecideBids ==
  /\ pc = "collect"
  /\ \E offers \in BidDecisions, threw \in BOOLEAN :
       LET botId == botOrder[botIdx]
           observation == buildObservation(state, config, botId, context)
           maxBids == config.stages[stageIdx + 1].max_bids_per_period
       IN  /\ threw => offers = <<>>
           /\ allBids' = IF threw THEN allBids
                         ELSE allBids \o admitBids(state, context, botId,
                                                   offers, maxBids)
           /\ lastCall' = [op |-> "decideBids", bot_id |-> botId,
                           observation |-> observation, prelim |-> <<>>,
                           threw |-> threw, offers |-> offers,
                           rescind |-> FALSE]
  /\ botIdx' = botIdx + 1
  /\ pc' = IF botIdx = Len(botOrder) THEN "clear" ELSE "collect"
  /\ UNCHANGED <<config, state, stageIdx, periodIdx, absolutePeriod, context,
                 rescindAllowed, clearingResult, twin, result>>

\* run(): the loop variables, the store and the result once runPeriod()
\* has returned record from store st
FinishPeriod(st, record) ==
  LET stageOver == ~(periodIdx + 1 < config.stages[stageIdx + 1].num_periods)
      moreStages == stageIdx < NumStages - 1
  IN  /\ state' = afterPeriod(st, config, record, stageIdx, periodIdx)
      /\ absolutePeriod' = absolutePeriod + 1
      /\ periodIdx' = IF stageOver THEN 0 ELSE periodIdx + 1
      /\ stageIdx' = IF stageOver /\ moreStages THEN stageIdx + 1 ELSE stageIdx
      /\ pc' = IF stageOver /\ ~moreStages THEN "done" ELSE "begin"
      /\ result' = IF stageOver /\ ~moreStages
                   THEN buildResult(state', config) ELSE result

\* runPeriod(): clearing, settlement, and the record when nobody is asked
ClearAndSettle ==
  /\ pc = "clear"
  /\ LET strategyType == config.stages[stageIdx + 1].clearing_strategy
         cr == StrategyClear(strategyType, allBids, context.tokens_available,
                             context.floor_price)
         settled == applyAllocations(state, cr.allocations, context)
         ask == winnerOf(cr) # Null /\ rescindAllowed /\ Len(cr.allocations) = 1
     IN  IF ~settled.ok
         THEN /\ pc' = "crashed"
              /\ state' = settled.st
              /\ UNCHANGED <<stageIdx, periodIdx, absolutePeriod,
                             clearingResult, twin, result>>
         ELSE IF ask
         THEN /\ pc' = "rescind"
              /\ state' = settled.st
              /\ clearingResult' = cr
              /\ twin' = [valid |-> FALSE, winner |-> Null, state |-> state',
                          context |-> context, before |-> state]
              /\ UNCHANGED <<stageIdx, periodIdx, absolutePeriod, result>>
         ELSE /\ FinishPeriod(settled.st,
                     periodResultOf(context, absolutePeriod, cr, Null,
                                    allBids, strategyType))
              /\ clearingResult' = NoClearing
              /\ twin' = [valid |-> FALSE, winner |-> Null, state |-> state',
                          context |-> context, before |-> state]
  /\ UNCHANGED <<config, context, rescindAllowed, botIdx, allBids, lastCall>>

\* DecideRescind taking a failing decideRescind for a rescind
DecideRescind_throwRescinds ==
  /\ pc = "rescind"
  /\ \E decision \in RescindDecisions :
       LET strategyType == config.stages[stageIdx + 1].clearing_strategy
           winnerBotId == winnerOf(clearingResult)
           winnerObservation == buildObservation(state, config, winnerBotId, context)
           prelimResult == periodResultOf(context, absolutePeriod, clearingResult,
                                          Null, allBids, strategyType)
           rescindedStore == processRescind(state, config, winnerBotId, context,
                                 clearingResult.allocations[1], absolutePeriod)
           rescindedRecord == periodResultOf(context, absolutePeriod,
                                 clearingResult, "false", allBids, strategyType)
       IN  /\ lastCall' = [op |-> "decideRescind", bot_id |-> winnerBotId,
                           observation |-> winnerObservation,
                           prelim |-> prelimResult,
                           threw |-> decision = "throw", offers |-> <<>>,
                           rescind |-> decision = "rescind"]
           /\ IF decision # "keep"
              THEN /\ FinishPeriod(rescindedStore, rescindedRecord)
                   /\ twin' = [valid |-> TRUE, winner |-> winnerBotId,
                               state |-> afterPeriod(state, config, prelimResult,
                                                     stageIdx, periodIdx),
                               context |-> context, before |-> twin.before]
              ELSE /\ FinishPeriod(state, prelimResult)
                   /\ twin' = [valid |-> TRUE, winner |-> winnerBotId,
                               state |-> afterPeriod(rescindedStore, config,
                                            rescindedRecord, stageIdx, periodIdx),
                               context |-> context, before |-> twin.before]
  /\ clearingResult' = NoClearing
  /\ UNCHANGED <<config, context, rescindAllowed, botIdx, allBids>>

\* runPeriod(): the rescind decision of the winner, and the record
DecideRescind ==
  /\ pc = "rescind"
  /\ \E decision \in RescindDecisions :
       LET strategyType == config.stages[stageIdx + 1].clearing_strategy
           winnerBotId == winnerOf(clearingResult)
           winnerObservation == buildObservation(state, config, winnerBotId, context)
           prelimResult == periodResultOf(context, absolutePeriod, clearingResult,
                                          Null, allBids, strategyType)
           rescindedStore == processRescind(state, config, winnerBotId, context,
                                 clearingResult.allocations[1], absolutePeriod)
           rescindedRecord == periodResultOf(context, absolutePeriod,
                                 clearingResult, "false", allBids, strategyType)
       IN  /\ lastCall' = [op |-> "decideRescind", bot_id |-> winnerBotId,
                           observation |-> winnerObservation,
                           prelim |-> prelimResult,
                           threw |-> decision = "throw", offers |-> <<>>,
                           rescind |-> decision = "rescind"]
           /\ IF decision = "rescind"
              THEN /\ FinishPeriod(rescindedStore, rescindedRecord)
                   /\ twin' = [valid |-> TRUE, winner |-> winnerBotId,
                               state |-> afterPeriod(state, config, prelimResult,
                                                     stageIdx, periodIdx),
                               context |-> context, before |-> twin.before]
              ELSE /\ FinishPeriod(state, prelimResult)
                   /\ twin' = [valid |-> TRUE, winner |-> winnerBotId,
                               state |-> afterPeriod(rescindedStore, config,
                                            rescindedRecord, stageIdx, periodIdx),
                               context |-> context, before |-> twin.before]
  /\ clearingResult' = NoClearing
  /\ UNCHANGED <<config, context, rescindAllowed, botIdx, allBids>>

Next == Run \/ BeginPeriod \/ DecideBids \/ ClearAndSettle \/ DecideRescind

Spec == Init /\ [][Next]_vars

\* run() has returned or has thrown: no step of the engine is possible
Halted == pc \in {"done", "crashed"}

\* run() is a loop of synchronous calls: every call returns or throws, and
\* the loop goes on until run() returns or throws.  This is weak fairness
\* of Next, with Halted written out for the states where Next is disabled.
SpecLive == Spec /\ ([]<>Halted \/ []<><<Next>>_vars)

\* the engine constructed from a malformed configuration
InitMalformed ==
  /\ config \in MalformedConfigs
  /\ \E agents \in AgentLists : state = NewStore(config, agents)
  /\ pc = "not_started"
  /\ stageIdx = 0
  /\ periodIdx = 0
  /\ absolutePeriod = 0
  /\ context = NoContext
  /\ rescindAllowed = FALSE
  /\ botIdx = 1
  /\ allBids = <<>>
  /\ clearingResult = NoClearing
  /\ lastCall = NoCall
  /\ twin = [valid |-> FALSE, winner |-> Null, state |-> state,
             context |-> NoContext, before |-> state]
  /\ result = NoResult

SpecMalformed == InitMalformed /\ [][Next]_vars

----------------------------------------------------------------------------
(* Agents that write to what they are given.  buildObservation() copies   *)
(* the arrays holdings and history and the top level of every history     *)
(* record, not what they hold: the holding objects are the store's, and   *)
(* the allocations and bids_submitted arrays of a history record are the  *)
(* record's.  prelimResult.allocations is clearingResult.allocations, the *)
(* array the record of the period is returned with.                       *)

\* the agent sets quantity of the first holding of its observation to 0
writeHolding(st, botId) ==
  [st EXCEPT !.bots[botId].holdings[1].quantity = 0]

\* the agent empties the allocations of the first record of its history
writeHistory(st) ==
  [st EXCEPT !.period_results[1].allocations = <<>>]

\* the winner sets tokens_allocated of the allocation of its preliminary
\* record to 0
writePrelim(cr) ==
  [cr EXCEPT !.allocations[1].tokens_allocated = 0]

\* during its decideBids call the agent writes to its observation
WriteObservation ==
  /\ pc = "collect"
  /\ LET botId == botOrder[botIdx]
     IN  \/ /\ state.bots[botId].holdings # <<>>
            /\ state' = writeHolding(state, botId)
         \/ /\ state.period_results # <<>>
            /\ state' = writeHistory(state)
  /\ state' # state
  /\ UNCHANGED <<config, pc, stageIdx, periodIdx, absolutePeriod, context,
                 rescindAllowed, botIdx, allBids, clearingResult, lastCall,
                 twin, result>>

\* during its decideRescind call the winner writes to the preliminary record
WritePrelim ==
  /\ pc = "rescind"
  /\ clearingResult' = writePrelim(clearingResult)
  /\ clearingResult' # clearingResult
  /\ UNCHANGED <<config, state, pc, stageIdx, periodIdx, absolutePeriod,
                 context, rescindAllowed, botIdx, allBids, lastCall, twin,
                 result>>

\* two second-price stages of one period, one bid per agent and period
WritingConfigs ==
  { TournamentConfig(<<StageConfig(1 * Unit, 1, LowBid, 1, 1, "vickrey"),
                       StageConfig(1 * Unit, 2, LowBid, 1, 1, "vickrey")>>,
                     <<3, 2, 1>>, 1) }

\* the engine constructed with two agents
InitWriting ==
  /\ config \in WritingConfigs
  /\ state = NewStore(config, <<"bot_B", "bot_A">>)
  /\ pc = "not_started"
  /\ stageIdx = 0
  /\ periodIdx = 0
  /\ absolutePeriod = 0
  /\ context = NoContext
  /\ rescindAllowed = FALSE
  /\ botIdx = 1
  /\ allBids = <<>>
  /\ clearingResult = NoClearing
  /\ lastCall = NoCall
  /\ twin = [valid |-> FALSE, winner |-> Null, state |-> state,
             context |-> NoContext, before |-> state]
  /\ result = NoResult

NextWriting == Next \/ WriteObservation \/ WritePrelim

SpecWriting == InitWriting /\ [][NextWriting]_vars

----------------------------------------------------------------------------
(* Runs of four periods.  A rescind made in one of the first two periods   *)
(* is injected into a period that is followed by another one.              *)

\* One second-price stage of four periods, and a uniform-price stage of one
\* period before a second-price stage of three; one bid per agent and
\* period.
LongConfigs ==
  { TournamentConfig(<<StageConfig(4 * Unit, 1, LowBid, 4, 1, "vickrey")>>,
                     <<3, 2, 1>>, 1),
    TournamentConfig(<<StageConfig(1 * Unit, 1, LowBid, 1, 1, "uniform_price"),
                       StageConfig(3 * Unit, 2, LowBid, 3, 1, "vickrey")>>,
                     <<3, 2, 1>>, 1) }

InitLong ==
  /\ config \in LongConfigs
  /\ state = NewStore(config, <<"bot_B", "bot_A">>)
  /\ pc = "not_started"
  /\ stageIdx = 0
  /\ periodIdx = 0
  /\ absolutePeriod = 0
  /\ context = NoContext
  /\ rescindAllowed = FALSE
  /\ botIdx = 1
  /\ allBids = <<>>
  /\ clearingResult = NoClearing
  /\ lastCall = NoCall
  /\ twin = [valid |-> FALSE, winner |-> Null, state |-> state,
             context |-> NoContext, before |-> state]
  /\ result = NoResult

SpecLong == InitLong /\ [][Next]_vars

----------------------------------------------------------------------------
(* JavaScript numbers.  A price and a total cost are IEEE 754 binary64    *)
(* values.  A positive one is a leading bit 1 of exponent e followed by   *)
(* 52 bits, held here as four digits c[1..4] of 13 bits each:             *)
(*   value = 2^e * (1 + c[1]/2^13 + c[2]/2^26 + c[3]/2^39 + c[4]/2^52)    *)

Base == 2^13

\* round to nearest, ties to even: c are the 52 bits kept, guard is the
\* first bit dropped, sticky tells whether anything lies beyond it
RoundToNearest(c, e, guard, sticky) ==
  IF ~(guard = 1 /\ (sticky \/ c[4] % 2 = 1)) THEN [c |-> c, e |-> e]
  ELSE IF \A i \in 1..4 : c[i] = Base - 1
  THEN [c |-> <<0, 0, 0, 0>>, e |-> e + 1]
  ELSE LET j == CHOOSE k \in 1..4 :
                  c[k] < Base - 1 /\ \A i \in (k + 1)..4 : c[i] = Base - 1
       IN  [c |-> [i \in 1..4 |-> IF i < j THEN c[i]
                                  ELSE IF i = j THEN c[j] + 1 ELSE 0],
            e |-> e]

\* the number a decimal literal n / d denotes: the binary64 value nearest
\* to it (n, d > 0)
NumberOf(n, d) ==
  LET e == CHOOSE k \in (-8)..8 :
             LET num == IF k < 0 THEN n * 2^(-k) ELSE n
                 den == IF k < 0 THEN d ELSE d * 2^k
             IN  den <= num /\ num < 2 * den
      num == IF e < 0 THEN n * 2^(-e) ELSE n
      den == IF e < 0 THEN d ELSE d * 2^e
      r0 == num - den
      r1 == (Base * r0) % den
      r2 == (Base * r1) % den
      r3 == (Base * r2) % den
      r4 == (Base * r3) % den
      guard == IF 2 * r4 >= den THEN 1 ELSE 0
  IN  RoundToNearest(<<(Base * r0) \div den, (Base * r1) \div den,
                       (Base * r2) \div den, (Base * r3) \div den>>,
                     e, guard, 2 * r4 - guard * den # 0)

\* x * k for a number x and a whole number k in 1..7: the exact product,
\* rounded to 53 bits
NumberTimes(x, k) ==
  LET t4 == x.c[4] * k
      t3 == x.c[3] * k + t4 \div Base
      t2 == x.c[2] * k + t3 \div Base
      t1 == x.c[1] * k + t2 \div Base
      full == <<k + t1 \div Base, t1 % Base, t2 % Base, t3 % Base, t4 % Base>>
      extra == CHOOSE n \in 0..3 : 2^n <= full[1] /\ full[1] < 2^(n + 1)
      dropped == full[5] % 2^extra
      guard == IF extra > 0 THEN (dropped \div 2^(extra - 1)) % 2 ELSE 0
      sticky == extra > 1 /\ dropped % 2^(extra - 1) # 0
  IN  RoundToNearest([i \in 1..4 |->
                        ((full[i] % 2^extra) * Base + full[i + 1]) \div 2^extra],
                     x.e + extra, guard, sticky)

\* -1, 0 or 1 as number x is below, at or above number y
NumberCompare(x, y) ==
  IF x.e # y.e THEN (IF x.e < y.e THEN -1 ELSE 1)
  ELSE IF x.c = y.c THEN 0
  ELSE LET j == CHOOSE k \in 1..4 :
                  x.c[k] # y.c[k] /\ \A i \in 1..(k - 1) : x.c[i] = y.c[i]
       IN  IF x.c[j] < y.c[j] THEN -1 ELSE 1
\* Demand of a bid of priceTenths / 10 per token admitted for a supply of
\* tokens whole tokens, against that supply: -1, 0 or 1.  total_cost is the
\* number price * tokens.  clear() reads price and total_cost with
\* new Decimal(), which takes the shortest decimal denoting the number, and
\* divides: the quotient is tokens when the product is the number nearest
\* to the decimal product, and lies above or below tokens as the product
\* lies above or below that number.
DemandExcess(priceTenths, tokens) ==
  NumberCompare(NumberTimes(NumberOf(priceTenths, 10), tokens),
                NumberOf(priceTenths * tokens, 10))

\* runPeriod(): the bids admitted from one decision of botId, prices in
\* tenths and the supply a whole number of tokens.  total_cost stands for
\* the decimal that clear() reads from the number price * tokens_available:
\* a product above or below the decimal product is that of the supply plus
\* or minus one hundred-millionth of a token, so that total_cost / price is
\* above or below the supply as in clear().
admitBidsInNumbers(st, ctx, botId, offers, maxBidsPerPeriod) ==
  LET bidSlice == Slice(offers, maxBidsPerPeriod)
      bot == st.bots[botId]
      totalCost(price) ==
        price * (ctx.tokens_available
                   + DemandExcess(price, ctx.tokens_available \div Unit))
      ok(price) == /\ ~(price < ctx.floor_price)
                   /\ ~(totalCost(price) > bot.remaining_budget)
                   /\ ~(price <= 0)
  IN  Map(SelectSeq(bidSlice, ok), LAMBDA price :
          [bot_id |-> botId, stage |-> ctx.stage, period |-> ctx.period,
           price_per_token |-> price, total_cost |-> totalCost(price),
           submitted_at |-> ctx.absolute_period])

\* prices an agent may offer, in tenths: 0.1, 0.2 and 0.3
NumberDecisions == {<<>>, <<1>>, <<2>>, <<3>>}

\* runPeriod(): one decideBids call and its admission, in numbers
DecideBidsInNumbers ==
  /\ pc = "collect"
  /\ \E offers \in NumberDecisions, threw \in BOOLEAN :
       LET botId == botOrder[botIdx]
           observation == buildObservation(state, config, botId, context)
           maxBids == config.stages[stageIdx + 1].max_bids_per_period
       IN  /\ threw => offers = <<>>
           /\ allBids' = IF threw THEN allBids
                         ELSE allBids \o admitBidsInNumbers(state, context,
                                             botId, offers, maxBids)
           /\ lastCall' = [op |-> "decideBids", bot_id |-> botId,
                           observation |-> observation, prelim |-> <<>>,
                           threw |-> threw, offers |-> offers,
                           rescind |-> FALSE]
  /\ botIdx' = botIdx + 1
  /\ pc' = IF botIdx = Len(botOrder) THEN "clear" ELSE "collect"
  /\ UNCHANGED <<config, state, stageIdx, periodIdx, absolutePeriod, context,
                 rescindAllowed, clearingResult, twin, result>>

\* One uniform-price stage of one period with a supply of one, two or three
\* tokens, a floor of 0.1 and one bid per agent; prices and budget are in
\* tenths.
NumberConfigs ==
  { [TournamentConfig(<<StageConfig(tokens * Unit, 1, 1, 1, 1, "uniform_price")>>,
                      <<3, 2, 1>>, 1)
       EXCEPT !.budget_per_bot = 3 * BudgetPerBot * Unit] : tokens \in 1..3 }

InitNumbers ==
  /\ config \in NumberConfigs
  /\ state = NewStore(config, <<"bot_B", "bot_A">>)
  /\ pc = "not_started"
  /\ stageIdx = 0
  /\ periodIdx = 0
  /\ absolutePeriod = 0
  /\ context = NoContext
  /\ rescindAllowed = FALSE
  /\ botIdx = 1
  /\ allBids = <<>>
  /\ clearingResult = NoClearing
  /\ lastCall = NoCall
  /\ twin = [valid |-> FALSE, winner |-> Null, state |-> state,
             context |-> NoContext, before |-> state]
  /\ result = NoResult

NextNumbers == Run \/ BeginPeriod \/ DecideBidsInNumbers \/ ClearAndSettle

SpecNumbers == InitNumbers /\ [][NextNumbers]_vars

----------------------------------------------------------------------------
(* The store driven directly: any sequence of addHolding / removeHolding *)

\* Most holdings the store holds over all bots (store specification).
MaxHoldings == 2

HoldingInputs ==
  [stage : 0..(NumStages - 1), period : 0..1, quantity : {Unit, 2 * Unit},
   price_paid_per_token : {LowBid}, points_per_token : {1, 2}]

TotalHoldings(st) ==
  SumSeq([i \in DOMAIN botOrder |-> Len(st.bots[botOrder[i]].holdings)])

StoreAddHolding ==
  /\ TotalHoldings(state) < MaxHoldings
  /\ \E botId \in BotIds, holding \in HoldingInputs :
       /\ state' = addHolding(state, botId, holding)
       /\ lastCall' = [NoCall EXCEPT !.op = "addHolding", !.bot_id = botId]
  /\ UNCHANGED <<config, pc, stageIdx, periodIdx, absolutePeriod, context,
                 rescindAllowed, botIdx, allBids, clearingResult, twin, result>>

StoreRemoveHolding ==
  /\ \E botId \in BotIds, stage \in 0..(NumStages - 1), period \in 0..1 :
       /\ state' = removeHolding(state, botId, stage, period)
       /\ lastCall' = [NoCall EXCEPT
                        !.op = IF state' # state THEN "removeHolding"
                               ELSE "removeHolding (not found)",
                        !.bot_id = botId]
  /\ UNCHANGED <<config, pc, stageIdx, periodIdx, absolutePeriod, context,
                 rescindAllowed, botIdx, allBids, clearingResult, twin, result>>

NextStore == StoreAddHolding \/ StoreRemoveHolding

SpecStore == Init /\ [][NextStore]_vars

----------------------------------------------------------------------------
(* The clearing strategies called directly, as the strategy tests do:      *)
(* clear(bids, supply, floorPrice) on a list of bids of distinct bidders.  *)
(* Quantities are in units of 10^-DECIMAL_PLACES tokens.                   *)

\* Most bids in one call of clear().
MaxClearBids == 4

\* bot_id of the i-th bid of a call
clearBots == <<"A", "B", "C", "D", "E", "F">>

\* quantities a bid may ask for (total_cost = price_per_token * quantity)
QtyInputs == {1, 3}

\* supplies of a call
SupplyInputs == {2, 5}

\* floor prices of a call: below, between and at the offered prices
FloorInputs == {LowBid - 1, LowBid, HighBid}

\* submission timestamps
TimeInputs == {0, 1}

\* makeBid(bot_id, price, totalCost, msOffset)
makeBid(botId, price, totalCost, msOffset) ==
  [bot_id |-> botId, stage |-> 0, period |-> 0, price_per_token |-> price,
   total_cost |-> totalCost, submitted_at |-> msOffset]

\* price, quantity and timestamp of each of n bids
BidInputs(n) == [1..n -> {LowBid, HighBid} \X QtyInputs \X TimeInputs]

InitClear ==
  /\ config = CHOOSE cfg \in Configs :
                Len(cfg.stages) = 1 /\ cfg.stages[1].floor_price >= 0
  /\ state = NewStore(config, <<>>)
  /\ pc = "input"
  /\ stageIdx = 0
  /\ periodIdx = 0
  /\ absolutePeriod = 0
  /\ \E supply \in SupplyInputs, floorPrice \in FloorInputs :
        context = [NoContext EXCEPT !.tokens_available = supply,
                                    !.floor_price = floorPrice]
  /\ rescindAllowed = FALSE
  /\ botIdx = 1
  /\ \E n \in 0..MaxClearBids :
       \E c \in BidInputs(n) :
         allBids = [i \in 1..n |-> makeBid(clearBots[i], c[i][1],
                                           c[i][1] * c[i][2], c[i][3])]
  /\ clearingResult = NoClearing
  /\ lastCall = NoCall
  /\ twin = [valid |-> FALSE, winner |-> Null, state |-> state,
             context |-> NoContext, before |-> state]
  /\ result = NoResult

ClearVickrey ==
  /\ pc = "input"
  /\ clearingResult' = VickreyClear(allBids, context.tokens_available,
                                    context.floor_price)
  /\ pc' = "vickrey"
  /\ UNCHANGED <<config, state, stageIdx, periodIdx, absolutePeriod, context,
                 rescindAllowed, botIdx, allBids, lastCall, twin, result>>

ClearUniformPrice ==
  /\ pc = "input"
  /\ clearingResult' = UniformPriceClear(allBids, context.tokens_available,
                                         context.floor_price)
  /\ pc' = "uniform_price"
  /\ UNCHANGED <<config, state, stageIdx, periodIdx, absolutePeriod, context,
                 rescindAllowed, botIdx, allBids, lastCall, twin, result>>

NextClear == ClearVickrey \/ ClearUniformPrice

SpecClear == InitClear /\ [][NextClear]_vars

----------------------------------------------------------------------------
(* The strategy registry driven directly: a tag is resolved and the       *)
(* strategy found, if any, clears a list of bids                          *)

\* Most bids of a list given to a strategy resolved by tag.
MaxRegistryBids == 2

\* the five registered tags, and tags that are not registered
TagInputs ==
  {strategyMap[i] : i \in DOMAIN strategyMap}
    \cup {"nonexistent", "constructor", "toString", "hasOwnProperty"}

InitRegistry ==
  /\ config = CHOOSE cfg \in Configs :
                Len(cfg.stages) = 1 /\ cfg.stages[1].floor_price >= 0
  /\ state = NewStore(config, <<>>)
  /\ pc = "input"
  /\ stageIdx = 0
  /\ periodIdx = 0
  /\ absolutePeriod = 0
  /\ \E supply \in SupplyInputs, floorPrice \in FloorInputs :
        context = [NoContext EXCEPT !.tokens_available = supply,
                                    !.floor_price = floorPrice]
  /\ rescindAllowed = FALSE
  /\ botIdx = 1
  /\ \E n \in 0..MaxRegistryBids :
       \E c \in BidInputs(n) :
         allBids = [i \in 1..n |-> makeBid(clearBots[i], c[i][1],
                                           c[i][1] * c[i][2], c[i][3])]
  /\ clearingResult = NoClearing
  /\ lastCall = NoCall
  /\ twin = [valid |-> FALSE, winner |-> Null, state |-> state,
             context |-> NoContext, before |-> state]
  /\ result = NoResult

\* getStrategy(type) followed by clear() on what it returned; pc is the tag,
\* lastCall tells which of the two calls threw, if one did
ResolveAndClear ==
  /\ pc = "input"
  /\ \E type \in TagInputs :
       LET resolved == getStrategy(type)
           cleared == clearOf(resolved.strategy, allBids,
                              context.tokens_available, context.floor_price)
       IN  /\ pc' = type
           /\ lastCall' = [NoCall EXCEPT
                              !.op = IF resolved.threw THEN "getStrategy"
                                     ELSE "clear",
                              !.threw = resolved.threw \/ cleared.threw]
           /\ clearingResult' = IF resolved.threw \/ cleared.threw
                                 THEN clearingResult ELSE cleared.result
  /\ UNCHANGED <<config, state, stageIdx, periodIdx, absolutePeriod, context,
                 rescindAllowed, botIdx, allBids, twin, result>>

NextRegistry == ResolveAndClear

SpecRegistry == InitRegistry /\ [][NextRegistry]_vars

----------------------------------------------------------------------------
(* Two runs of a tournament of one period, with the same configuration,   *)
(* the same agents and the same decisions.  Each run reads the clock      *)
(* (new Date(), Date.now()) and the id counter of its own process.        *)

\* one second-price or uniform-price stage of one period
RunConfigs ==
  { TournamentConfig(<<StageConfig(1 * Unit, 1, LowBid, 1, 2, strategy)>>,
                     <<3, 2, 1>>, 1) : strategy \in Implemented }

\* the clock readings of a run that admits n bids: time does not go back
ClockReadings(n) ==
  {c \in [1..n -> TimeInputs] : \A i, j \in 1..n : i < j => c[i] <= c[j]}

\* generateId('bid'): the clock reading and the running counter
generateId(now, idCounter) == <<"bid", now, idCounter>>

\* run() on a new store of one period: decisions[i] are the offers of the
\* i-th agent, clock[k] is the clock reading when the k-th bid is built,
\* idCounter the value of the id counter when the run starts
OneRun(cfg, decisions, clock, idCounter) ==
  LET stage == cfg.stages[1]
      st0 == setPhase(NewStore(cfg, botOrder), "stage_active")
      st1 == revealAtPeriodStart(st0, 0, 0, 0)
      ctx == periodContextOf(st1, cfg, 0, 0, 0)
      admitted(i) == admitBids(st1, ctx, botOrder[i], decisions[i],
                               stage.max_bids_per_period)
      all == admitted(1) \o admitted(2)
      bids == [k \in DOMAIN all |->
                 [id |-> generateId(clock[k], idCounter + k),
                  bot_id |-> all[k].bot_id, stage |-> all[k].stage,
                  period |-> all[k].period,
                  price_per_token |-> all[k].price_per_token,
                  total_cost |-> all[k].total_cost,
                  submitted_at |-> clock[k]]]
      cr == StrategyClear(stage.clearing_strategy, bids, ctx.tokens_available,
                          ctx.floor_price)
      settled == applyAllocations(st1, cr.allocations, ctx)
      record == periodResultOf(ctx, 0, cr, Null, bids, stage.clearing_strategy)
  IN  afterPeriod(settled.st, cfg, record, 0, 0)

\* the number of bids a run admits from these decisions
AdmittedCount(cfg, decisions) ==
  Len(OneRun(cfg, decisions, [k \in 1..(2 * Len(decisions)) |-> 0], 0)
        .period_results[1].bids_submitted)

\* lastCall.offers holds the decisions of the two agents, in the order of
\* registration
InitRuns ==
  /\ config \in RunConfigs
  /\ state = NewStore(config, <<"bot_B", "bot_A">>)
  /\ pc = "input"
  /\ stageIdx = 0
  /\ periodIdx = 0
  /\ absolutePeriod = 0
  /\ context = NoContext
  /\ rescindAllowed = FALSE
  /\ botIdx = 1
  /\ allBids = <<>>
  /\ clearingResult = NoClearing
  /\ \E offersB \in BidDecisions, offersA \in BidDecisions :
        lastCall = [NoCall EXCEPT !.offers = <<offersB, offersA>>]
  /\ twin = [valid |-> FALSE, winner |-> Null, state |-> state,
             context |-> NoContext, before |-> state]
  /\ result = NoResult

\* the first run: its store and its result
RunFirst ==
  /\ pc = "input"
  /\ \E clock \in ClockReadings(AdmittedCount(config, lastCall.offers)),
        idCounter \in {0, 1} :
       state' = OneRun(config, lastCall.offers, clock, idCounter)
  /\ result' = buildResult(state', config)
  /\ pc' = "first"
  /\ UNCHANGED <<config, stageIdx, periodIdx, absolutePeriod, context,
                 rescindAllowed, botIdx, allBids, clearingResult, lastCall,
                 twin>>

\* the second run, with the same decisions: its store is kept in twin
RunSecond ==
  /\ pc = "first"
  /\ \E clock \in ClockReadings(AdmittedCount(config, lastCall.offers)),
        idCounter \in {0, 1} :
       twin' = [twin EXCEPT
                  !.valid = TRUE,
                  !.state = OneRun(config, lastCall.offers, clock, idCounter)]
  /\ pc' = "second"
  /\ UNCHANGED <<config, state, stageIdx, periodIdx, absolutePeriod, context,
                 rescindAllowed, botIdx, allBids, clearingResult, lastCall,
                 result>>

NextRuns == RunFirst \/ RunSecond

SpecRuns == InitRuns /\ [][NextRuns]_vars

----------------------------------------------------------------------------
(* Vocabulary of the properties *)

Records == {state.period_results[i] : i \in DOMAIN state.period_results}

PendingRescinds == {state.pending_rescinds[i] : i \in DOMAIN state.pending_rescinds}

SupplyEntries ==
  {state.rescind_supply_queue[i] : i \in DOMAIN state.rescind_supply_queue}

\* the records an agent was shown in the latest call
ShownHistory ==
  IF lastCall.op \in {"decideBids", "decideRescind"}
  THEN {lastCall.observation.history[i] : i \in DOMAIN lastCall.observation.history}
  ELSE {}

\* the winner of absolute period p rescinded (processRescind ran for p)
RescindMadeAt(p) ==
  \E e \in SupplyEntries : e.target_absolute_period = p + RESCIND_REVEAL_DELAY

\* the rescind made at p has not been revealed
RescindPendingAt(p) ==
  \E r \in PendingRescinds : r.rescinded_at_absolute = p

\* period t has started: its revelations are done, its observations are not
\* older than that
PeriodStarted(t) ==
  \/ absolutePeriod > t
  \/ absolutePeriod = t /\ pc \in {"collect", "clear", "rescind"}

\* (stage, period) is one of the last two periods of the terminal stage
InLastTwo(stage, period) ==
  /\ stage = NumStages - 1
  /\ config.stages[stage + 1].num_periods - 1 - period < RESCIND_REVEAL_DELAY

\* the winner of the period of record r gave the tokens back: the holding of
\* the allocation is gone
WinnerRescinded(r) ==
  /\ r.winner_bot_id # Null
  /\ ~\E i \in DOMAIN state.bots[r.winner_bot_id].holdings :
        /\ state.bots[r.winner_bot_id].holdings[i].stage = r.stage
        /\ state.bots[r.winner_bot_id].holdings[i].period = r.period

HoldingsPaid(bot) ==
  SumSeq(Map(bot.holdings, LAMBDA h : h.quantity * h.price_paid_per_token))

----------------------------------------------------------------------------
(* Properties *)

\* C1: the record of a period whose winner rescinded carries rescinded =
\* unset while the rescind is pending, in the log and in the history of the
\* observations built in the following period; the value false appears
\* neither in the log nor in any observation.
C1_RescindedUnsetInLogAndObservations ==
  /\ \A r \in Records :
       /\ r.rescinded # "false"
       /\ RescindPendingAt(r.absolute_period) => r.rescinded = Null
  /\ \A r \in ShownHistory :
       /\ r.rescinded # "false"
       /\ (/\ r.absolute_period + 1 = lastCall.observation.absolute_period
           /\ RescindMadeAt(r.absolute_period)) => r.rescinded = Null

\* C2: the observation an agent other than the winner of period p receives
\* for its bids in period p+1 is the one it receives in the run that differs
\* only in the winner's rescind decision at p.
C2_NonWinnerObservationIndependentOfRescind ==
  (/\ lastCall.op = "decideBids"
   /\ twin.valid
   /\ lastCall.bot_id # twin.winner)
  => lastCall.observation =
       buildObservation(twin.state, config, lastCall.bot_id, twin.context)

\* C3: for every rescind made at absolute period p the record's flag is true
\* from the start of period p+2 on, so in every observation built in p+2, and
\* not before; it is true by the end of the run; the flag of a record whose
\* winner did not rescind is never true.
C3_FlagTrueFromStartOfRevealPeriod ==
  /\ \A r \in Records :
       /\ (WinnerRescinded(r)
           /\ PeriodStarted(r.absolute_period + RESCIND_REVEAL_DELAY))
          => r.rescinded = "true"
       /\ r.rescinded = "true"
          => /\ WinnerRescinded(r)
             /\ PeriodStarted(r.absolute_period + RESCIND_REVEAL_DELAY)
       /\ (pc = "done" /\ WinnerRescinded(r))
          => r.rescinded = "true"
  /\ \A r \in ShownHistory :
       (/\ RescindMadeAt(r.absolute_period)
        /\ lastCall.observation.absolute_period
             >= r.absolute_period + RESCIND_REVEAL_DELAY)
       => r.rescinded = "true"

\* C4: the rescind prompt is never offered at an absolute period p with
\* p + 2 >= total number of periods, and no supply injection or pending
\* rescind has its target / reveal-at period outside the horizon.
C4_NoRescindBeyondHorizon ==
  /\ pc = "rescind"
       => absolutePeriod + RESCIND_REVEAL_DELAY < TotalPeriods(config)
  /\ lastCall.op = "decideRescind"
       => lastCall.prelim.absolute_period + RESCIND_REVEAL_DELAY
            < TotalPeriods(config)
  /\ \A e \in SupplyEntries : e.target_absolute_period < TotalPeriods(config)
  /\ \A r \in PendingRescinds : r.reveal_at_absolute < TotalPeriods(config)

\* C5: in the last two periods of the terminal stage decideRescind is never
\* called; the winner's holding and payment stay, no ledger entry is created
\* for the period, and the record's flag is unset for the rest of the run.
C5_NoRescindInLastTwoPeriods ==
  /\ pc = "rescind" => ~InLastTwo(stageIdx, periodIdx)
  /\ lastCall.op = "decideRescind"
       => ~InLastTwo(lastCall.observation.stage, lastCall.observation.period)
  /\ \A r \in Records :
       InLastTwo(r.stage, r.period) =>
         /\ r.rescinded = Null
         /\ ~RescindPendingAt(r.absolute_period)
         /\ ~RescindMadeAt(r.absolute_period)
         /\ r.winner_bot_id # Null =>
              LET a == r.allocations[1]
                  bot == state.bots[r.winner_bot_id]
              IN  /\ \E i \in DOMAIN bot.holdings :
                       /\ bot.holdings[i].stage = r.stage
                       /\ bot.holdings[i].period = r.period
                       /\ bot.holdings[i].quantity = a.tokens_allocated
                       /\ bot.holdings[i].quantity
                            * bot.holdings[i].price_paid_per_token = a.total_paid
                  /\ bot.remaining_budget + HoldingsPaid(bot)
                       = config.budget_per_bot

\* the run is over and a bot that rescinded before won one of the last two
\* periods, where it kept the tokens
C5_Witness ==
  /\ pc = "done"
  /\ \E r \in Records, q \in Records :
       /\ InLastTwo(r.stage, r.period)
       /\ r.winner_bot_id # Null
       /\ q.winner_bot_id = r.winner_bot_id
       /\ RescindMadeAt(q.absolute_period)

\* C6: tokens-available of every period t is the base share of its stage
\* plus the tokens of the rescind made at t-2, and every rescinded batch has
\* entered the supply of exactly one period, the one two periods after the
\* rescind, by the end of the run.
BaseShare(stage) ==
  config.stages[stage + 1].base_token_supply \div config.stages[stage + 1].num_periods

RescindedTokensAt(p) ==
  IF \E q \in Records : q.absolute_period = p /\ WinnerRescinded(q)
  THEN (CHOOSE q \in Records : q.absolute_period = p).allocations[1].tokens_allocated
  ELSE 0

C6_SupplyIsBasePlusRescindsTwoBefore ==
  /\ \A r \in Records :
       r.tokens_available = BaseShare(r.stage)
                              + RescindedTokensAt(r.absolute_period - RESCIND_REVEAL_DELAY)
  /\ pc \in {"collect", "clear", "rescind"} =>
       context.tokens_available = BaseShare(stageIdx)
                              + RescindedTokensAt(absolutePeriod - RESCIND_REVEAL_DELAY)
  /\ pc = "done" =>
       \A q \in Records :
         WinnerRescinded(q) =>
           Cardinality({r \in Records :
              /\ r.absolute_period = q.absolute_period + RESCIND_REVEAL_DELAY
              /\ r.tokens_available
                   = BaseShare(r.stage) + q.allocations[1].tokens_allocated}) = 1

\* C7: from a rescind by agent a at period p until the start of period p+2,
\* a's private-info list (and so its observation at p+1) holds exactly one
\* entry with reveal-at = p+2; from the start of p+2 on, and when the run is
\* over, it holds none; no other agent's list or observation ever holds one.
EntriesFor(privateInfo, p) ==
  Len(SelectSeq(privateInfo, LAMBDA info :
        info.reveal_at_absolute_period = p + RESCIND_REVEAL_DELAY))

C7_PrivateInfoOnlyOnRescinderUntilReveal ==
  /\ \A r \in Records :
       WinnerRescinded(r) =>
         LET p == r.absolute_period
             a == r.winner_bot_id
             revealed == PeriodStarted(p + RESCIND_REVEAL_DELAY) \/ pc = "done"
         IN  /\ EntriesFor(state.bots[a].private_info, p)
                  = IF revealed THEN 0 ELSE 1
             /\ \A b \in BotIds \ {a} :
                  EntriesFor(state.bots[b].private_info, p) = 0
             /\ lastCall.op \in {"decideBids", "decideRescind"} =>
                  LET obs == lastCall.observation
                  IN  /\ (lastCall.bot_id = a /\ obs.absolute_period = p + 1)
                           => EntriesFor(obs.private_rescind_info, p) = 1
                      /\ (lastCall.bot_id = a
                          /\ obs.absolute_period >= p + RESCIND_REVEAL_DELAY)
                           => EntriesFor(obs.private_rescind_info, p) = 0
                      /\ lastCall.bot_id # a
                           => EntriesFor(obs.private_rescind_info, p) = 0
  /\ \A b \in BotIds :
       \A i \in DOMAIN state.bots[b].private_info :
         \E r \in Records :
           /\ WinnerRescinded(r)
           /\ r.winner_bot_id = b
           /\ state.bots[b].private_info[i].reveal_at_absolute_period
                = r.absolute_period + RESCIND_REVEAL_DELAY

PaidIn(r, b) ==
  SumSeq(Map(SelectSeq(r.allocations, LAMBDA a : a.bot_id = b),
             LAMBDA a : a.total_paid))

RetainedPaid(b) ==
  SumSeq(Map(SelectSeq(state.period_results, LAMBDA r : ~WinnerRescinded(r)),
             LAMBDA r : PaidIn(r, b)))

SupplyEntriesFor(st, target) ==
  SelectSeq(st.rescind_supply_queue,
            LAMBDA e : e.target_absolute_period = target)

C12_EntriesOfARescind ==
  /\ \A r \in PendingRescinds :
       r.reveal_at_absolute = r.rescinded_at_absolute + RESCIND_REVEAL_DELAY
  /\ \A r \in Records :
       LET entries == SupplyEntriesFor(state,
                          r.absolute_period + RESCIND_REVEAL_DELAY)
       IN  IF WinnerRescinded(r)
           THEN /\ Len(entries) = 1
                /\ entries[1].tokens = r.allocations[1].tokens_allocated
           ELSE entries = <<>>
  /\ Len(state.rescind_supply_queue)
       = Cardinality({r \in Records : WinnerRescinded(r)})

C12_CreatedWithRemovalAndRefund ==
  LET queue == state.rescind_supply_queue
      pending == state.pending_rescinds
      removedFrom(b) ==
        Len(state'.bots[b].holdings) < Len(state.bots[b].holdings)
      refundTo(b) ==
        state'.bots[b].remaining_budget - state.bots[b].remaining_budget
      injected == Len(state'.rescind_supply_queue) > Len(queue)
  IN  /\ injected <=> Len(state'.pending_rescinds) > Len(pending)
      /\ injected <=> \E b \in BotIds : removedFrom(b)
      /\ injected <=> \E b \in BotIds : refundTo(b) > 0
      /\ injected =>
           \E b \in BotIds :
             LET idx == FindIndex(state.bots[b].holdings, LAMBDA h :
                           h.stage = context.stage /\ h.period = context.period)
                 h == state.bots[b].holdings[idx]
                 entry == state'.rescind_supply_queue[Len(queue) + 1]
                 rescind == state'.pending_rescinds[Len(pending) + 1]
             IN  /\ idx # 0
                 /\ state'.bots[b].holdings = RemoveAt(state.bots[b].holdings, idx)
                 /\ refundTo(b) = h.quantity * h.price_paid_per_token
                 /\ state'.rescind_supply_queue = Append(queue, entry)
                 /\ state'.pending_rescinds = Append(pending, rescind)
                 /\ entry.target_absolute_period
                      = absolutePeriod + RESCIND_REVEAL_DELAY
                 /\ entry.tokens = h.quantity
                 /\ rescind.bot_id = b
                 /\ rescind.tokens = h.quantity
                 /\ rescind.rescinded_at_absolute = absolutePeriod
                 /\ rescind.reveal_at_absolute
                      = absolutePeriod + RESCIND_REVEAL_DELAY

C12_PendingAndInjectionOfEveryRescind ==
  []C12_EntriesOfARescind /\ [][C12_CreatedWithRemovalAndRefund]_vars

\* two rescinds were made, the first is public and the second is pending
C12_Witness ==
  /\ Len(state.rescind_supply_queue) = 2
  /\ Len(state.pending_rescinds) = 1
  /\ \E r \in Records : r.rescinded = "true"

\* C13: in every state and for every stage s, the tokens of s retained by
\* all agents together are at most the base supply of s plus the rescind
\* injections whose target period is a period of s that has started.
RetainedInStage(s) ==
  SumSeq([i \in DOMAIN botOrder |-> state.bots[botOrder[i]].tokens_per_stage[s + 1]])

MaturedInto(s) ==
  SumSeq(Map(SelectSeq(state.rescind_supply_queue, LAMBDA e :
               /\ e.target_absolute_period < TotalPeriods(config)
               /\ PeriodStarted(e.target_absolute_period)
               /\ absoluteToStagePeriod(config, e.target_absolute_period).stage = s),
             LAMBDA e : e.tokens))

C13_RetainedWithinStageSupply ==
  \A s \in 0..(NumStages - 1) :
    RetainedInStage(s) <= config.stages[s + 1].base_token_supply + MaturedInto(s)

----------------------------------------------------------------------------
(* Properties of the clearing strategies called directly *)

\* the bids of the call that are at or above the floor, by position
AtOrAboveFloor ==
  {i \in DOMAIN allBids : allBids[i].price_per_token >= context.floor_price}

\* the positions of the highest bids at or above the floor
Highest ==
  {i \in AtOrAboveFloor :
     \A j \in AtOrAboveFloor :
       allBids[j].price_per_token <= allBids[i].price_per_token}

MaxOf(S) == CHOOSE x \in S : \A y \in S : y <= x

\* C14: second-price clearing.  With no bid at or above the floor there is
\* no allocation and the clearing price is the floor.  Otherwise there is
\* exactly one allocation, to a highest bid, of the full supply, at the
\* second-highest price at or above the floor (the floor when there is one
\* such bid only), with total paid = price x supply; the price is not below
\* the floor and not above the winner's bid.
C14_SecondPriceClearing ==
  pc = "vickrey" =>
    LET supply == context.tokens_available
        floorPrice == context.floor_price
        cr == clearingResult
    IN  IF AtOrAboveFloor = {}
        THEN /\ cr.allocations = <<>>
             /\ cr.clearing_price = floorPrice
             /\ cr.total_tokens_allocated = 0
        ELSE /\ Len(cr.allocations) = 1
             /\ \E w \in Highest :
                  LET a == cr.allocations[1]
                      others == AtOrAboveFloor \ {w}
                      second == IF others = {} THEN floorPrice
                                ELSE MaxOf({allBids[j].price_per_token :
                                              j \in others})
                  IN  /\ a.bot_id = allBids[w].bot_id
                      /\ a.tokens_allocated = supply
                      /\ a.price_paid_per_token = second
                      /\ a.total_paid = second * supply
                      /\ cr.clearing_price = second
                      /\ cr.total_tokens_allocated = supply
                      /\ a.price_paid_per_token >= floorPrice
                      /\ a.price_paid_per_token <= allBids[w].price_per_token

\* the winner bid above the second-highest bid, which is above the floor,
\* with another bid at the second-highest price
C14_Witness ==
  /\ pc = "vickrey"
  /\ Len(clearingResult.allocations) = 1
  /\ Cardinality(AtOrAboveFloor) >= 3
  /\ clearingResult.clearing_price > context.floor_price
  /\ \E w \in Highest :
       /\ allBids[w].bot_id = clearingResult.allocations[1].bot_id
       /\ clearingResult.clearing_price < allBids[w].price_per_token

\* C15: when several bids tie at the highest price, the one submitted
\* earliest wins, the first of the list when the timestamps are equal too
\* (the engine appends the bids in admission order, with timestamps that
\* do not decrease), and it pays the tied price.
C15_TiedHighestEarliestWins ==
  (pc = "vickrey" /\ Cardinality(Highest) >= 2) =>
    \E w \in Highest :
      /\ clearingResult.allocations[1].bot_id = allBids[w].bot_id
      /\ \A j \in Highest \ {w} :
           \/ allBids[w].submitted_at < allBids[j].submitted_at
           \/ (allBids[w].submitted_at = allBids[j].submitted_at /\ w < j)
      /\ clearingResult.allocations[1].price_paid_per_token
           = allBids[w].price_per_token

\* three bids tie at the highest price: the winner was submitted before one
\* that precedes it in the list and at the same time as one that follows it
C15_Witness ==
  /\ pc = "vickrey"
  /\ \E w \in Highest, j \in Highest, k \in Highest :
       /\ clearingResult.allocations[1].bot_id = allBids[w].bot_id
       /\ j < w
       /\ allBids[w].submitted_at < allBids[j].submitted_at
       /\ w < k
       /\ allBids[w].submitted_at = allBids[k].submitted_at

----------------------------------------------------------------------------
(* Properties of the engine, continued *)

\* the highest admitted bid of every agent that has one, in admission order
HighestPerAgent(bids) ==
  LET keep(i) ==
        /\ \A j \in DOMAIN bids :
             bids[j].bot_id = bids[i].bot_id
               => bids[j].price_per_token <= bids[i].price_per_token
        /\ \A j \in 1..(i - 1) :
             bids[j].bot_id = bids[i].bot_id
               => bids[j].price_per_token < bids[i].price_per_token
  IN  Map(SelectSeq([i \in DOMAIN bids |-> i], keep), LAMBDA i : bids[i])

\* C16: in every second-price period the winner and the price paid are
\* those of the clearing of the agents' highest admitted bids alone.
C16_OnlyHighestBidMatters ==
  \A r \in Records :
    r.strategy_used = "vickrey" =>
      LET alone == VickreyClear(HighestPerAgent(r.bids_submitted),
                                r.tokens_available, r.floor_price)
      IN  /\ winnerOf(alone) = r.winner_bot_id
          /\ alone.clearing_price = r.clearing_price
          /\ alone.allocations = r.allocations

----------------------------------------------------------------------------
(* Properties of uniform-price clearing called directly *)

\* the valid bids of the call, by position
ValidBids ==
  {i \in DOMAIN allBids :
     /\ allBids[i].price_per_token >= context.floor_price
     /\ allBids[i].total_cost > 0}

\* quantity demanded by bid i: total cost / price
Demand(i) ==
  CHOOSE q \in 0..allBids[i].total_cost :
    q * allBids[i].price_per_token = allBids[i].total_cost

\* sum of F over the positions in S
SumOver(S, F(_)) ==
  SumSeq([i \in DOMAIN allBids |-> IF i \in S THEN F(i) ELSE 0])

TotalDemand == SumOver(ValidBids, Demand)

\* the allocations made to the bidder of bid i
AllocationsOf(i) ==
  SelectSeq(clearingResult.allocations,
            LAMBDA a : a.bot_id = allBids[i].bot_id)

FilledInFullAt(i, price) ==
  /\ Len(AllocationsOf(i)) = 1
  /\ AllocationsOf(i)[1].tokens_allocated = Demand(i)
  /\ AllocationsOf(i)[1].price_paid_per_token = price
  /\ AllocationsOf(i)[1].total_paid = Demand(i) * price

\* C17: when the valid bids demand at most the supply, every valid bid is
\* filled in full with the quantity it demands at the floor price, nobody
\* else gets anything and the clearing price is the floor.
C17_UnderSubscriptionFillsAllAtFloor ==
  (pc = "uniform_price" /\ ValidBids # {}
   /\ TotalDemand <= context.tokens_available) =>
    /\ clearingResult.clearing_price = context.floor_price
    /\ \A i \in ValidBids : FilledInFullAt(i, context.floor_price)
    /\ Len(clearingResult.allocations) = Cardinality(ValidBids)
    /\ clearingResult.total_tokens_allocated = TotalDemand

\* two or more valid bids, all above the floor, demand exactly the supply
C17_Witness ==
  /\ pc = "uniform_price"
  /\ TotalDemand = context.tokens_available
  /\ Cardinality(ValidBids) >= 2
  /\ \A i \in ValidBids : allBids[i].price_per_token > context.floor_price
  /\ Len(clearingResult.allocations) = Cardinality(ValidBids)

\* bid i comes before bid j in price-descending FIFO order
ComesBefore(i, j) ==
  \/ allBids[i].price_per_token > allBids[j].price_per_token
  \/ /\ allBids[i].price_per_token = allBids[j].price_per_token
     /\ \/ allBids[i].submitted_at < allBids[j].submitted_at
        \/ (allBids[i].submitted_at = allBids[j].submitted_at /\ i < j)

\* demand of the valid bids up to and including bid i, in that order
CumulativeDemand(i) ==
  SumOver({j \in ValidBids : j = i \/ ComesBefore(j, i)}, Demand)

\* the first bid at which the cumulative demand reaches the supply
IsMarginal(i) ==
  /\ i \in ValidBids
  /\ CumulativeDemand(i) >= context.tokens_available
  /\ CumulativeDemand(i) - Demand(i) < context.tokens_available

OverSubscribed ==
  pc = "uniform_price" /\ TotalDemand > context.tokens_available

\* C18: when the valid bids demand more than the supply, the clearing
\* price is the price of the first bid, in price-descending FIFO order, at
\* which the cumulative demand reaches or exceeds the supply; every bid
\* above it is filled in full at the clearing price, every bid below it
\* and every invalid bid gets nothing, and every allocation is paid at the
\* clearing price.
C18_OverSubscriptionClearsAtMarginalBid ==
  OverSubscribed =>
    \E m \in ValidBids :
      /\ IsMarginal(m)
      /\ clearingResult.clearing_price = allBids[m].price_per_token
      /\ \A i \in ValidBids :
           /\ allBids[i].price_per_token > clearingResult.clearing_price
                => FilledInFullAt(i, clearingResult.clearing_price)
           /\ allBids[i].price_per_token < clearingResult.clearing_price
                => AllocationsOf(i) = <<>>
      /\ \A i \in DOMAIN allBids \ ValidBids : AllocationsOf(i) = <<>>
      /\ \A k \in DOMAIN clearingResult.allocations :
           LET a == clearingResult.allocations[k]
           IN  /\ a.price_paid_per_token = clearingResult.clearing_price
               /\ a.total_paid = a.tokens_allocated * a.price_paid_per_token

\* the marginal bid is at the lower price and above the floor: a bid above
\* it is filled in full, and a bid at its price was submitted after it
C18_Witness ==
  /\ OverSubscribed
  /\ clearingResult.clearing_price > context.floor_price
  /\ \E m \in ValidBids, i \in ValidBids, j \in ValidBids :
       /\ IsMarginal(m)
       /\ allBids[i].price_per_token > allBids[m].price_per_token
       /\ FilledInFullAt(i, allBids[m].price_per_token)
       /\ j # m
       /\ allBids[j].price_per_token = allBids[m].price_per_token
       /\ ComesBefore(m, j)

\* the valid bids at the clearing price
AtClearing ==
  {i \in ValidBids : allBids[i].price_per_token = clearingResult.clearing_price}

\* supply left by the bids above the clearing price
Residual ==
  context.tokens_available
    - SumOver({i \in ValidBids :
                 allBids[i].price_per_token > clearingResult.clearing_price},
              Demand)

\* tokens allocated to the bidder of bid i
TokensOf(i) == SumSeq(Map(AllocationsOf(i), LAMBDA a : a.tokens_allocated))

\* C19: when the valid bids demand more than the supply, every bid at the
\* clearing price but the last one gets the residual supply times its share
\* of the demand at that price, rounded to a unit of 10^-8; the last one
\* gets what is left of the residual; the tokens allocated at the clearing
\* price add up to the residual, and the total allocated is the supply.
C19_ProRataSumsToResidual ==
  OverSubscribed =>
    LET totalAtClearing == SumOver(AtClearing, Demand)
        last == CHOOSE l \in AtClearing :
                  \A i \in AtClearing \ {l} : ComesBefore(i, l)
    IN  /\ \A i \in AtClearing \ {last} :
             /\ 2 * (TokensOf(i) * totalAtClearing - Residual * Demand(i))
                  <= totalAtClearing
             /\ 2 * (Residual * Demand(i) - TokensOf(i) * totalAtClearing)
                  <= totalAtClearing
        /\ TokensOf(last)
             = Residual - SumOver(AtClearing \ {last}, TokensOf)
        /\ SumOver(AtClearing, TokensOf) = Residual
        /\ clearingResult.total_tokens_allocated = context.tokens_available
        /\ SumSeq(Map(clearingResult.allocations,
                      LAMBDA a : a.tokens_allocated)) <= context.tokens_available

----------------------------------------------------------------------------
(* Properties of the engine: SP awards *)

StageTokens(b, s) == state.bots[b].tokens_per_stage[s + 1]

\* place of agent b among the agents holding tokens of stage s: token count
\* descending, then agent id ascending
PlaceInStage(b, s) ==
  1 + Cardinality({c \in BotIds \ {b} :
        \/ StageTokens(c, s) > StageTokens(b, s)
        \/ (StageTokens(c, s) = StageTokens(b, s) /\ LocaleBefore(c, b))})

StageAward(b, s) ==
  IF StageTokens(b, s) > 0 /\ PlaceInStage(b, s) <= Len(config.sp_awards)
  THEN config.sp_awards[PlaceInStage(b, s)]
  ELSE 0

\* the stages whose SP have been awarded
StagesAwarded ==
  IF pc = "done" THEN 0..(NumStages - 1) ELSE 0..(stageIdx - 1)

\* the overall bonus, awarded when the run is over to the agent with the
\* most weighted points (agent id ascending on a tie), if it has any
OverallBonus(b) ==
  IF /\ pc = "done"
     /\ state.bots[b].weighted_points > 0
     /\ \A c \in BotIds \ {b} :
          \/ state.bots[c].weighted_points < state.bots[b].weighted_points
          \/ /\ state.bots[c].weighted_points = state.bots[b].weighted_points
             /\ LocaleBefore(b, c)
  THEN config.overall_bonus_sp
  ELSE 0

\* C20: the SP of every agent are, over the stages that have ended, the
\* value of the SP vector at its place among the agents holding tokens of
\* the stage (token count descending, agent id ascending), nothing when it
\* holds no token of the stage or its place is beyond the vector; the
\* overall bonus is the only other award.
C20_StageAwardsByRank ==
  \A b \in BotIds :
    state.bots[b].sp
      = SumSeq([s \in 1..NumStages |->
                  IF (s - 1) \in StagesAwarded THEN StageAward(b, s - 1) ELSE 0])
        + OverallBonus(b)

\* the run is over; in a stage with a one-value SP vector both agents hold
\* the same number of tokens: the agent with the smaller id, registered
\* second, has the award and the other has nothing for the stage
C20_Witness ==
  /\ pc = "done"
  /\ BotIds # {}
  /\ Len(config.sp_awards) = 1
  /\ \E s \in 0..(NumStages - 1) :
       /\ StageTokens("bot_A", s) > 0
       /\ StageTokens("bot_A", s) = StageTokens("bot_B", s)
       /\ StageAward("bot_A", s) = config.sp_awards[1]
       /\ StageAward("bot_B", s) = 0
       /\ state.bots["bot_A"].sp >= config.sp_awards[1]

----------------------------------------------------------------------------
(* Properties of the engine: overall bonus and final result *)

\* what agent b has received beyond the awards of the stages that have ended
BonusReceived(b) ==
  state.bots[b].sp
    - SumSeq([s \in 1..NumStages |->
                IF (s - 1) \in StagesAwarded THEN StageAward(b, s - 1) ELSE 0])

\* agent b has the most weighted points, the smaller agent id deciding a tie
TopWeighted(b) ==
  \A c \in BotIds \ {b} :
    \/ state.bots[c].weighted_points < state.bots[b].weighted_points
    \/ /\ state.bots[c].weighted_points = state.bots[b].weighted_points
       /\ LocaleBefore(b, c)

\* C21: nothing beyond the stage awards is given while the run lasts; when
\* it is over the overall bonus has been given once, to the one agent with
\* the most weighted points (smaller agent id on a tie) when these are
\* strictly positive, and to nobody when every agent has zero weighted
\* points.
C21_OverallBonusOnceToTopWeighted ==
  /\ pc # "done" => \A b \in BotIds : BonusReceived(b) = 0
  /\ pc = "done" =>
       /\ \A b \in BotIds :
            BonusReceived(b) =
              IF TopWeighted(b) /\ state.bots[b].weighted_points > 0
              THEN config.overall_bonus_sp ELSE 0
       /\ Cardinality({b \in BotIds : BonusReceived(b) # 0}) <= 1
       /\ (\A b \in BotIds : state.bots[b].weighted_points = 0)
            => \A b \in BotIds : BonusReceived(b) = 0

\* the run is over with both agents on the same positive weighted points:
\* the agent with the smaller id, registered second, has the bonus
C21_Witness ==
  /\ pc = "done"
  /\ BotIds # {}
  /\ state.bots["bot_A"].weighted_points > 0
  /\ state.bots["bot_A"].weighted_points = state.bots["bot_B"].weighted_points
  /\ BonusReceived("bot_A") = config.overall_bonus_sp
  /\ BonusReceived("bot_B") = 0

\* entry a of a leaderboard is not behind entry b: more SP, or the same SP
\* and at least the weighted points
NotBehind(a, b) ==
  \/ a.sp > b.sp
  \/ a.sp = b.sp /\ a.weighted_points >= b.weighted_points

\* C22: when the run is over the final leaderboard has one entry for every
\* agent, with its SP and weighted points, sorted by SP descending and
\* among equal SP by weighted points descending; the reported winner is
\* its first entry, so no other agent has more SP or the same SP and
\* more weighted points; the winner is the empty string when there is no
\* agent.
C22_LeaderboardSortedWinnerFirst ==
  pc = "done" =>
    LET lb == result.final_leaderboard
    IN  /\ Len(lb) = Cardinality(BotIds)
        /\ {lb[i].bot_id : i \in DOMAIN lb} = BotIds
        /\ \A i \in DOMAIN lb :
             /\ lb[i].sp = state.bots[lb[i].bot_id].sp
             /\ lb[i].weighted_points = state.bots[lb[i].bot_id].weighted_points
        /\ \A i, j \in DOMAIN lb : i < j => NotBehind(lb[i], lb[j])
        /\ BotIds # {} =>
             /\ result.winner_bot_id = lb[1].bot_id
             /\ \A b \in BotIds :
                  NotBehind(state.bots[result.winner_bot_id], state.bots[b])
        /\ BotIds = {} => result.winner_bot_id = ""

\* the run is over with both agents on the same SP; the agent registered
\* second has more weighted points and is the winner
C22_Witness ==
  /\ pc = "done"
  /\ BotIds # {}
  /\ state.bots["bot_A"].sp = state.bots["bot_B"].sp
  /\ state.bots["bot_A"].sp > 0
  /\ state.bots["bot_A"].weighted_points > state.bots["bot_B"].weighted_points
  /\ result.winner_bot_id = "bot_A"

\* the absolute periods whose record names b as the winner and whose winner
\* did (rescinded = TRUE) or did not (FALSE) give the tokens back
PeriodsWonBy(b, rescinded) ==
  {r.absolute_period : r \in {x \in Records :
      x.winner_bot_id = b /\ (RescindMadeAt(x.absolute_period) <=> rescinded)}}

\* C23: in the final result rescinds_made of every agent is the number of
\* periods it won and rescinded, and periods_won is the number of periods
\* it was the single winner of and kept the tokens.
C23_SummaryCountsWinsAndRescinds ==
  pc = "done" =>
    \A b \in BotIds :
      /\ result.bot_summaries[b].rescinds_made
           = Cardinality(PeriodsWonBy(b, TRUE))
      /\ result.bot_summaries[b].periods_won
           = Cardinality(PeriodsWonBy(b, FALSE))

----------------------------------------------------------------------------
(* Properties of the engine: failing agents and admission *)

\* the outcome of the clearing a step from the clearing position produced:
\* kept for the rescind prompt, or in the record just appended
ClearedNow(cr) ==
  IF pc' = "rescind" THEN clearingResult' = cr
  ELSE LET r == state'.period_results[Len(state'.period_results)]
       IN  /\ r.allocations = cr.allocations
           /\ r.clearing_price = cr.clearing_price
           /\ r.bids_submitted = allBids

\* a decideBids call that throws adds no bid and leaves the store as it is:
\* the admitted set holds no bid of the failing agent, and its budget,
\* holdings, counters, SP and private info are untouched
FailedDecideBidsHasNoEffect ==
  (pc = "collect" /\ lastCall'.threw) =>
     /\ allBids' = allBids
     /\ \A i \in DOMAIN allBids' : allBids'[i].bot_id # lastCall'.bot_id
     /\ state' = state
     /\ pc' \in {"collect", "clear"}

\* the bids admitted from the other agents are cleared by the stage's
\* mechanism as in any period
AdmittedBidsCleared ==
  pc = "clear" =>
     /\ pc' # "crashed"
     /\ ClearedNow(StrategyClear(config.stages[stageIdx + 1].clearing_strategy,
                                 allBids, context.tokens_available,
                                 context.floor_price))

StoreAfterKeep(r) ==
  LET ctx == [stage |-> r.stage, period |-> r.period,
              absolute_period |-> r.absolute_period,
              tokens_available |-> r.tokens_available,
              floor_price |-> r.floor_price,
              points_per_token |-> r.points_per_token]
  IN  afterPeriod(applyAllocations(twin.before, r.allocations, ctx).st,
                  config, [r EXCEPT !.rescinded = Null], r.stage, r.period)

\* C25: after a decideRescind call that failed the store is the one a keep
\* decision leaves: the winner has the holding of the period and has paid
\* for it, there is no pending rescind, no supply injection and no
\* private-info entry for the period, the flag of the record is unset, and
\* the run goes on.
C25_FailedDecideRescindKeeps ==
  (lastCall.op = "decideRescind" /\ lastCall.threw) =>
    LET r == state.period_results[Len(state.period_results)]
        w == lastCall.bot_id
        paid == r.allocations[1].total_paid
    IN  /\ r.winner_bot_id = w
        /\ r.rescinded = Null
        /\ \E i \in DOMAIN state.bots[w].holdings :
             /\ state.bots[w].holdings[i].stage = r.stage
             /\ state.bots[w].holdings[i].period = r.period
             /\ state.bots[w].holdings[i].quantity = r.allocations[1].tokens_allocated
        /\ state.bots[w].remaining_budget
             = twin.before.bots[w].remaining_budget - paid
        /\ ~RescindPendingAt(r.absolute_period)
        /\ ~RescindMadeAt(r.absolute_period)
        /\ \A i \in DOMAIN state.bots[w].private_info :
             state.bots[w].private_info[i].reveal_at_absolute_period
               # r.absolute_period + RESCIND_REVEAL_DELAY
        /\ state = StoreAfterKeep(r)
        /\ pc \in {"begin", "done"}

\* the winner's decideRescind call has failed; the winner holds the tokens
\* it paid for
C25_Witness ==
  /\ lastCall.op = "decideRescind" /\ lastCall.threw
  /\ LET r == state.period_results[Len(state.period_results)]
     IN  /\ r.winner_bot_id = lastCall.bot_id
         /\ r.allocations[1].total_paid > 0
         /\ state.bots[lastCall.bot_id].holdings # <<>>

\* the offers of the latest decideBids call the engine looks at: the first
\* max_bids_per_period of them
OffersLookedAt ==
  Slice(lastCall.offers, config.stages[context.stage + 1].max_bids_per_period)

\* an offer at this price is admitted for a bot with this budget
Admissible(price, budget, tokens, floorPrice) ==
  /\ price >= floorPrice
  /\ price > 0
  /\ price * tokens <= budget

\* every bid of the admitted set of the period being run is admissible for
\* its agent, whose budget has not moved since the period started
AdmittedBidsAdmissible ==
  pc \in {"collect", "clear"} =>
    \A i \in DOMAIN allBids :
      /\ Admissible(allBids[i].price_per_token,
                    state.bots[allBids[i].bot_id].remaining_budget,
                    context.tokens_available, context.floor_price)
      /\ allBids[i].total_cost
           = allBids[i].price_per_token * context.tokens_available

\* every bid of the admitted set of the latest record is admissible for its
\* agent with the budget the agent had when the period started
RecordedBidsAdmissible ==
  (pc \in {"begin", "done"} /\ state.period_results # <<>>) =>
    LET r == state.period_results[Len(state.period_results)]
    IN  \A i \in DOMAIN r.bids_submitted :
          Admissible(r.bids_submitted[i].price_per_token,
                     twin.before.bots[r.bids_submitted[i].bot_id].remaining_budget,
                     r.tokens_available, r.floor_price)

\* the bids the latest decideBids call has added are its admissible offers,
\* in their order: the other offers have left no trace
OffersAdmittedOrDropped ==
  (pc \in {"collect", "clear"} /\ lastCall.op = "decideBids") =>
    LET mine == SelectSeq(allBids, LAMBDA b : b.bot_id = lastCall.bot_id)
        good == SelectSeq(OffersLookedAt, LAMBDA price :
                  Admissible(price, state.bots[lastCall.bot_id].remaining_budget,
                             context.tokens_available, context.floor_price))
    IN  Map(mine, LAMBDA b : b.price_per_token) = good

----------------------------------------------------------------------------
(* Properties of the strategy registry *)

RegisteredTags == {listStrategies[i] : i \in DOMAIN listStrategies}

ReservedTags == {"discriminatory", "dutch", "sealed_first"}

\* the registry lists five tags, the probe says yes for the second-price
\* and the uniform-price tag and no for the three reserved ones
FiveTagsTwoAvailable ==
  /\ Len(listStrategies) = 5
  /\ RegisteredTags = {"vickrey", "uniform_price"} \cup ReservedTags
  /\ isStrategyImplemented("vickrey")
  /\ isStrategyImplemented("uniform_price")
  /\ \A tag \in ReservedTags : ~isStrategyImplemented(tag)

\* clear() of a reserved tag has thrown and has returned no result
ReservedClearFails ==
  pc \in ReservedTags =>
    /\ lastCall.op = "clear" /\ lastCall.threw
    /\ clearingResult = NoClearing

\* resolving a tag that is not registered has thrown
UnknownTagIsAnError ==
  (pc \in TagInputs \ RegisteredTags) =>
    lastCall.op = "getStrategy" /\ lastCall.threw

\* C27: the registry lists exactly five tags; resolving a tag that is not
\* one of them is an error; the availability probe is true for the
\* second-price and the uniform-price tag and false for the three reserved
\* tags, whose clear() always throws and returns no result.
C27_RegistryOfFiveTags ==
  FiveTagsTwoAvailable /\ ReservedClearFails /\ UnknownTagIsAnError

----------------------------------------------------------------------------
(* Properties of the engine: construction and repeatability *)

\* a stage has a non-positive number of periods or a negative floor price
Malformed(cfg) ==
  \E s \in DOMAIN cfg.stages :
    \/ cfg.stages[s].num_periods <= 0
    \/ cfg.stages[s].floor_price < 0

\* C28: with a malformed configuration no tournament is built: run() is
\* never entered, the store never leaves its first phase and no period is
\* ever recorded.
C28_MalformedConfigNeverRuns ==
  Malformed(config) =>
    /\ pc = "not_started"
    /\ state.phase = "not_started"
    /\ state.period_results = <<>>

\* C29: two runs with the same configuration, the same agents in the same
\* order and the same decisions have the same period log (clearing prices,
\* allocations, winners, admitted bids, flags) and the same final
\* leaderboard.
C29_TwoRunsIdenticalLogs ==
  pc = "second" =>
    /\ state.period_results = twin.state.period_results
    /\ result.final_leaderboard
         = buildResult(twin.state, config).final_leaderboard

----------------------------------------------------------------------------
(* Properties of the engine: the snapshot agents bid on *)

\* what an observation shows to every agent alike: the history, the
\* leaderboard and the framing of the period
SharedView(observation) ==
  [history |-> observation.history,
   leaderboard |-> observation.leaderboard,
   stage |-> observation.stage,
   period |-> observation.period,
   absolute_period |-> observation.absolute_period,
   periods_remaining_in_stage |-> observation.periods_remaining_in_stage,
   stages_remaining |-> observation.stages_remaining,
   tokens_available |-> observation.tokens_available,
   floor_price |-> observation.floor_price,
   points_per_token |-> observation.points_per_token]

\* a decideBids step leaves the store as it is, and the agent consulted
\* sees what the agent consulted before it in the period saw
SameSnapshotForAll ==
  pc = "collect" =>
    /\ state' = state
    /\ lastCall'.op = "decideBids"
    /\ lastCall.op = "decideBids" =>
         SharedView(lastCall'.observation) = SharedView(lastCall.observation)

\* C30: within a period no decideBids call changes the store, and the
\* observation of every agent shows the same history, leaderboard and
\* period framing whatever the agents consulted before it have bid.
C30_BiddersSeeSameSnapshot ==
  [][SameSnapshotForAll]_vars

\* the second agent has been consulted after the first one had a bid
\* admitted, in a period that is not the first
C30_Witness ==
  /\ pc = "clear"
  /\ lastCall.op = "decideBids"
  /\ lastCall.observation.history # <<>>
  /\ \E i \in DOMAIN allBids : allBids[i].bot_id # lastCall.bot_id

----------------------------------------------------------------------------
(* Properties of the engine: what agents can reach *)

\* while an agent is consulted for bids the store does not change
StoreUntouchedWhileBidding ==
  pc = "collect" => state' = state

\* while the winner is consulted the cleared allocation does not change, and
\* the record appended when it has answered carries the allocation that was
\* settled: the tokens of the holding, the amount deducted
RecordCarriesSettledAllocation ==
  pc = "rescind" =>
    /\ pc' = "rescind" => clearingResult' = clearingResult
    /\ pc' # "rescind" =>
         LET r == state'.period_results[Len(state'.period_results)]
             w == winnerOf(clearingResult)
             settled == state.bots[w].holdings[Len(state.bots[w].holdings)]
         IN  /\ Len(r.allocations) = 1
             /\ r.allocations[1].bot_id = w
             /\ r.allocations[1].tokens_allocated = settled.quantity
             /\ r.allocations[1].total_paid
                  = twin.before.bots[w].remaining_budget
                      - state.bots[w].remaining_budget

\* C31: nothing an agent does to the observation or to the preliminary
\* record it is given changes the store's agent state or the period log.
C31_AgentsCannotWriteEngineState ==
  [][StoreUntouchedWhileBidding /\ RecordCarriesSettledAllocation]_vars

----------------------------------------------------------------------------
(* Properties of the engine: winner, targets, caps and order of steps *)

\* C32: the winner of a record is set only in a period cleared by the
\* second-price mechanism; in a period of a uniform-price stage the winner
\* is unset and the rescind prompt is not issued.
C32_WinnerOnlyUnderSecondPrice ==
  /\ \A r \in Records :
       /\ r.winner_bot_id # Null => r.strategy_used = "vickrey"
       /\ r.strategy_used = "uniform_price" => r.winner_bot_id = Null
  /\ pc = "rescind" =>
       config.stages[stageIdx + 1].clearing_strategy # "uniform_price"
  /\ lastCall.op = "decideRescind" =>
       lastCall.prelim.strategy_used # "uniform_price"

\* the absolute period at which period q of stage s runs
AbsoluteOf(s, q) ==
  SumSeq([i \in 1..s |-> config.stages[i].num_periods]) + q

\* the positions (stage, period within the stage) of the configuration
Positions ==
  {sq \in (0..(NumStages - 1)) \X (0..(TotalPeriods(config) - 1)) :
     sq[2] < config.stages[sq[1] + 1].num_periods}

\* the private-info entries of all agents
PrivateInfos ==
  UNION {{state.bots[b].private_info[i] : i \in DOMAIN state.bots[b].private_info}
         : b \in BotIds}

\* C33: the target of every private-info entry is the position of the
\* period that runs at the absolute period of the reveal, two after the
\* rescind; for a rescind in the last period of a stage that is not the
\* last one it is period 1 of the next stage.
C33_PrivateInfoTargetsPeriodOfInjection ==
  \A info \in PrivateInfos :
    LET p == info.reveal_at_absolute_period - RESCIND_REVEAL_DELAY
    IN  /\ <<info.target_stage, info.target_period>> \in Positions
        /\ AbsoluteOf(info.target_stage, info.target_period)
             = info.reveal_at_absolute_period
        /\ \A k \in 0..(NumStages - 2) :
             p = AbsoluteOf(k, config.stages[k + 1].num_periods - 1)
               => info.target_stage = k + 1 /\ info.target_period = 1

\* the bids of agent b in a list of bids
BidsOf(bids, b) == SelectSeq(bids, LAMBDA x : x.bot_id = b)

\* the admitted bids of the latest decideBids call are admissible offers
\* among the first cap offers of the call, in their order; nothing comes
\* from an offer at position cap + 1 or later
FromFirstOffersOnly ==
  (pc \in {"collect", "clear"} /\ lastCall.op = "decideBids") =>
    LET cap == config.stages[context.stage + 1].max_bids_per_period
        first == SubSeq(lastCall.offers, 1, Min(cap, Len(lastCall.offers)))
        mine == BidsOf(allBids, lastCall.bot_id)
    IN  /\ Len(mine) <= cap
        /\ Map(mine, LAMBDA x : x.price_per_token)
             = SelectSeq(first, LAMBDA price :
                 Admissible(price, state.bots[lastCall.bot_id].remaining_budget,
                            context.tokens_available, context.floor_price))

\* C34: the offers of an agent are cut to the first N, N the cap of the
\* stage, before they are tested: a record holds at most N bids of an
\* agent, and an offer at position N + 1 or later is never admitted, also
\* when an earlier offer of the agent was dropped.
C34_OffersCutToCapBeforeAdmission ==
  /\ FromFirstOffersOnly
  /\ \A r \in Records : \A b \in BotIds :
       Len(BidsOf(r.bids_submitted, b))
         <= config.stages[r.stage + 1].max_bids_per_period

\* the agent offered LowBid then HighBid in a stage with a cap of one and a
\* floor of HighBid: the first offer was dropped and the second, which
\* would pass, was not looked at
C34_Witness ==
  /\ pc = "clear"
  /\ lastCall.op = "decideBids"
  /\ lastCall.offers = <<LowBid, HighBid>>
  /\ config.stages[context.stage + 1].max_bids_per_period = 1
  /\ context.floor_price = HighBid
  /\ BidsOf(allBids, lastCall.bot_id) = <<>>

\* C35: the winner is asked about a rescind after the period is settled:
\* the observation of its decideRescind call shows its budget less the
\* amount paid and the holding of the period just cleared in its holdings,
\* in its tokens of the stage and in its weighted points, and the
\* preliminary record of the call has rescinded unset.
C35_SettledBeforeRescindPrompt ==
  lastCall.op = "decideRescind" =>
    LET o == lastCall.observation
        prelim == lastCall.prelim
        alloc == prelim.allocations[1]
        before == twin.before.bots[lastCall.bot_id]
        holding == [stage |-> prelim.stage, period |-> prelim.period,
                    quantity |-> alloc.tokens_allocated,
                    price_paid_per_token |-> alloc.price_paid_per_token,
                    points_per_token |-> prelim.points_per_token]
    IN  /\ alloc.bot_id = lastCall.bot_id
        /\ o.remaining_budget = before.remaining_budget - alloc.total_paid
        /\ o.holdings = Append(before.holdings, holding)
        /\ o.tokens_per_stage =
             [before.tokens_per_stage EXCEPT ![prelim.stage + 1] =
                @ + alloc.tokens_allocated]
        /\ o.weighted_points =
             before.weighted_points
               + alloc.tokens_allocated * prelim.points_per_token
        /\ prelim.rescinded = Null
        /\ prelim.absolute_period = o.absolute_period

\* a winner that paid something and got tokens worth points has been asked
C35_Witness ==
  /\ lastCall.op = "decideRescind"
  /\ lastCall.prelim.allocations[1].total_paid > 0
  /\ lastCall.prelim.allocations[1].tokens_allocated > 0
  /\ lastCall.prelim.points_per_token > 0
  /\ lastCall.observation.remaining_budget < BudgetPerBot
  /\ Len(lastCall.observation.holdings) > 0

\* the log has one record for every (stage, period), in the order of run
LogComplete ==
  /\ Len(state.period_results) = TotalPeriods(config)
  /\ \A i \in DOMAIN state.period_results :
       LET r == state.period_results[i]
       IN  /\ r.absolute_period = i - 1
           /\ <<r.stage, r.period>> \in Positions
           /\ AbsoluteOf(r.stage, r.period) = i - 1
  /\ \A sq \in Positions :
       Cardinality({i \in DOMAIN state.period_results :
                      /\ state.period_results[i].stage = sq[1]
                      /\ state.period_results[i].period = sq[2]}) = 1

C37_RescindsRevealedAtCompletion ==
  state.phase = "completed" =>
    /\ state.pending_rescinds = <<>>
    /\ \A b \in BotIds : state.bots[b].private_info = <<>>
    /\ \A r \in Records : r.rescinded \in {Null, "true"}

\* the holdings of agent b in store st that were bought in stage s
HoldingsOfStage(st, b, s) ==
  SelectSeq(st.bots[b].holdings, LAMBDA h : h.stage = s)

\* no step changes a token count or a holding of a stage that has ended
EndedStageFrozen ==
  \A s \in StagesAwarded : \A b \in BotIds :
    /\ state'.bots[b].tokens_per_stage[s + 1] = state.bots[b].tokens_per_stage[s + 1]
    /\ HoldingsOfStage(state', b, s) = HoldingsOfStage(state, b, s)

\* a rescind in the last period of a stage: the holding is gone when the
\* stage is ranked, and the SP of the step are the awards by the ranking
\* of the token counts without it
RescindCountsForNothing ==
  (/\ pc = "rescind"
   /\ lastCall'.op = "decideRescind"
   /\ lastCall'.rescind
   /\ stageIdx' # stageIdx) =>
    \A s \in {stageIdx} :
    LET w == lastCall'.bot_id
        alloc == clearingResult.allocations[1]
    IN  /\ state'.bots[w].tokens_per_stage[s + 1]
             = state.bots[w].tokens_per_stage[s + 1] - alloc.tokens_allocated
        /\ Len(HoldingsOfStage(state', w, s))
             = Len(HoldingsOfStage(state, w, s)) - 1
        /\ \A h \in {state'.bots[w].holdings[i] :
                       i \in DOMAIN state'.bots[w].holdings} :
             ~(h.stage = s /\ h.period = periodIdx)
        /\ \A b \in BotIds :
             state'.bots[b].sp - state.bots[b].sp = (StageAward(b, s))'

\* C38: once a stage has ended and its SP are awarded, no token count of
\* the stage and no holding of the stage changes any more; a rescind in the
\* last period of the stage removes the holding before the stage is ranked,
\* so the rescinded tokens do not count for the award of the stage.
C38_EndedStageFrozenRescindBeforeRanking ==
  [][EndedStageFrozen /\ RescindCountsForNothing]_vars

\* the only period of the first stage was won and rescinded: the second
\* stage has begun, the winner has no token and no SP of the first stage
C38_Witness ==
  /\ pc = "begin"
  /\ stageIdx = 1
  /\ lastCall.op = "decideRescind"
  /\ lastCall.rescind
  /\ lastCall.prelim.stage = 0
  /\ lastCall.prelim.allocations[1].tokens_allocated > 0
  /\ state.bots[lastCall.bot_id].tokens_per_stage[1] = 0
  /\ state.bots[lastCall.bot_id].sp = 0

\* the step that clears a period without an admitted bid: the record, and
\* what the step leaves alone; the SP change by the award of a stage that
\* ends with the period, and by nothing else
EmptyPeriodStep ==
  (pc = "clear" /\ allBids = <<>>) =>
    \A s \in {stageIdx} :
    LET r == state'.period_results[Len(state'.period_results)]
        stageEnds == stageIdx' # stageIdx \/ pc' = "done"
    IN  /\ Len(state'.period_results) = Len(state.period_results) + 1
        /\ r.absolute_period = absolutePeriod
        /\ r.allocations = <<>>
        /\ r.winner_bot_id = Null
        /\ r.clearing_price = context.floor_price
        /\ r.rescinded = Null
        /\ r.bids_submitted = <<>>
        /\ pc' \in {"begin", "done"}
        /\ state'.pending_rescinds = state.pending_rescinds
        /\ state'.rescind_supply_queue = state.rescind_supply_queue
        /\ \A b \in BotIds :
             /\ state'.bots[b].remaining_budget = state.bots[b].remaining_budget
             /\ state'.bots[b].holdings = state.bots[b].holdings
             /\ state'.bots[b].tokens_per_stage = state.bots[b].tokens_per_stage
             /\ state'.bots[b].weighted_points = state.bots[b].weighted_points
             /\ state'.bots[b].private_info = state.bots[b].private_info
             /\ state'.bots[b].sp - state.bots[b].sp
                  = IF stageEnds THEN StageAward(b, s) + (OverallBonus(b))'
                    ELSE 0

\* the supply of a period after one without a bid is its base share and
\* the tokens rescinded two periods before it, nothing of the unsold supply
UnsoldNotCarried ==
  \A r \in Records, q \in Records :
    (r.bids_submitted = <<>> /\ q.absolute_period > r.absolute_period) =>
      q.tokens_available
        = BaseShare(q.stage) + RescindedTokensAt(q.absolute_period - RESCIND_REVEAL_DELAY)

\* C39: a period without an admitted bid gives a record with no allocation,
\* no winner, the floor as clearing price and rescinded unset; it changes
\* no budget, holdings, counters, SP or private information and enqueues
\* nothing; its unsold supply, with the rescinded tokens injected into it,
\* is not carried to a later period.
C39_EmptyPeriodChangesNothing ==
  /\ [][EmptyPeriodStep]_vars
  /\ [](UnsoldNotCarried)

\* a period that had rescinded tokens injected got no bid, and the period
\* after it had the base share of its stage as supply
C39_Witness ==
  \E r \in Records, q \in Records :
    /\ r.bids_submitted = <<>>
    /\ r.allocations = <<>>
    /\ r.tokens_available > BaseShare(r.stage)
    /\ q.absolute_period = r.absolute_period + 1
    /\ q.tokens_available = BaseShare(q.stage)

\* the tokens a bid asks for in a uniform-price clearing
DemandOf(bid) == bid.total_cost \div bid.price_per_token

\* the highest price among the bids of a record
TopPrice(r) ==
  CHOOSE p \in {r.bids_submitted[i].price_per_token : i \in DOMAIN r.bids_submitted} :
    \A i \in DOMAIN r.bids_submitted : r.bids_submitted[i].price_per_token <= p

\* the agents with a bid at the highest price of a record
TopBidders(r) ==
  {r.bids_submitted[i].bot_id :
     i \in {j \in DOMAIN r.bids_submitted :
              r.bids_submitted[j].price_per_token = TopPrice(r)}}

\* C40: every admitted bid costs price x supply and so asks for the whole
\* supply of its period; in a uniform-price stage a period with one
\* admitted bid gives that bid the whole supply at the floor, and a period
\* with two or more admitted bids clears at the highest admitted price and
\* gives tokens to bids at that price only, so that several agents win a
\* period only when they tie at the top price.
C40_EveryBidDemandsFullSupply ==
  \A r \in Records :
    /\ \A i \in DOMAIN r.bids_submitted :
         DemandOf(r.bids_submitted[i]) = r.tokens_available
    /\ (r.strategy_used = "uniform_price" /\ Len(r.bids_submitted) = 1) =>
         /\ r.clearing_price = r.floor_price
         /\ Len(r.allocations) = 1
         /\ r.allocations[1].bot_id = r.bids_submitted[1].bot_id
         /\ r.allocations[1].tokens_allocated = r.tokens_available
         /\ r.allocations[1].price_paid_per_token = r.floor_price
    /\ (r.strategy_used = "uniform_price" /\ Len(r.bids_submitted) >= 2) =>
         /\ r.clearing_price = TopPrice(r)
         /\ \A i \in DOMAIN r.allocations :
              /\ r.allocations[i].bot_id \in TopBidders(r)
              /\ r.allocations[i].price_paid_per_token = TopPrice(r)
         /\ Cardinality({r.allocations[i].bot_id : i \in DOMAIN r.allocations}) > 1
              => Cardinality(TopBidders(r)) > 1

====
